---- MODULE Spec2Model ----
(***************************************************************************)
(* AI request routing, daily budget ledger, prompt cache and usage log of  *)
(* SoznAi (backend/app/ai/router.py, costs.py, cache.py and the storage    *)
(* service they call).                                                     *)
(*                                                                         *)
(* Money is counted in units of 0.005 USD (half a cent), time in seconds.  *)
(* Strings that the code inspects character by character (prompts and      *)
(* response texts) are sequences of one-character strings.                 *)
(***************************************************************************)
EXTENDS Integers, Sequences, FiniteSets, TLC

VARIABLES
    now,          \* the wall clock (datetime.utcnow), seconds
    limiter,      \* the DailyLimiter object
    settings,     \* the Settings object the router was built with
    router_mode,  \* AIRouter._mode
    initialized,  \* AIRouter.initialize() has run
    cache,        \* rows of the prompt cache table
    usage,        \* rows of the usage_stats table, in insertion order
    settings_db,  \* the persisted ai mode / soft limit / hard limit settings
    answered,     \* number of ask calls that returned an AIResponse
    last,         \* the last call: its arguments, what it returned and
                  \* whether it invoked the provider client
    tasks,        \* the ask coroutines in flight: the frame of each, by
                  \* task id
    monotonic,    \* time.monotonic(), in ticks
    buckets,      \* RateLimiter._buckets: the deque of each key
    granted,      \* history: the times at which allow returned True, by key
    app_mode,     \* ModeManager._status.state
    send,         \* the TelegramService.process_update / _send_message
                  \* call in flight
    insights,     \* rows of the weekly insights table
    recent_runs,  \* WeeklyInsightsEngine._recent_runs
    computed,     \* history: when each (user, week) was last computed
    applied       \* history: the mode and the limits last set at runtime
                  \* through set_mode and set_limits, and the restarts

\* The services beside the router: rate limiter, telegram service, mode
\* manager and weekly insights engine
services == <<monotonic, buckets, granted, app_mode, send, insights,
              recent_runs, computed>>

vars == <<now, limiter, settings, router_mode, initialized, cache, usage,
          settings_db, answered, last, tasks, services, applied>>

(***************************************************************************)
(* Bounds of the model                                                     *)
(***************************************************************************)
MaxTicks == 1
MaxUsage == 2
MaxSpend == 4

(***************************************************************************)
(* Program constants                                                       *)
(***************************************************************************)
DaySeconds == 86400
ClockStep == 43200
MinTtl == 60
AiCacheTtlSec == 86400
MinCacheLen == 60

None == -1

Max(a, b) == IF a >= b THEN a ELSE b

Rep(c, n) == [i \in 1..n |-> c]

(***************************************************************************)
(* Strings                                                                 *)
(***************************************************************************)
Whitespace == {" ", "\t"}

RECURSIVE LStrip(_)
LStrip(s) ==
    IF s = <<>> THEN <<>>
    ELSE IF Head(s) \in Whitespace THEN LStrip(Tail(s)) ELSE s

RECURSIVE RStrip(_)
RStrip(s) ==
    IF s = <<>> THEN <<>>
    ELSE IF s[Len(s)] \in Whitespace THEN RStrip(SubSeq(s, 1, Len(s) - 1)) ELSE s

\* str.strip()
Strip(s) == RStrip(LStrip(s))

\* str.lower() on the alphabet of the model
Lower(c) == IF c = "A" THEN "a" ELSE IF c = "B" THEN "b" ELSE c

\* " ".join(s.split()) on a stripped, lowered string: every run of
\* whitespace becomes one space
RECURSIVE JoinSplit(_)
JoinSplit(s) ==
    IF s = <<>> THEN <<>>
    ELSE IF Head(s) \in Whitespace
         THEN IF Tail(s) # <<>> /\ Head(Tail(s)) \in Whitespace
              THEN JoinSplit(Tail(s))
              ELSE <<" ">> \o JoinSplit(Tail(s))
         ELSE <<Head(s)>> \o JoinSplit(Tail(s))

\* _normalize_prompt without lower()
NormalizePrompt_KeepsCase(prompt) == JoinSplit(Strip(prompt))

\* PromptCache._normalize_prompt
NormalizePrompt(prompt) ==
    LET stripped == Strip(prompt)
        lowered == [i \in 1..Len(stripped) |-> Lower(stripped[i])]
    IN JoinSplit(lowered)

\* _cache_key that leaves the locale out of the payload
CacheKey_IgnoresLocale(kind, prompt, locale) ==
    <<kind, "", NormalizePrompt(prompt)>>

\* PromptCache._cache_key: the SHA-256 digest of "kind:locale:normalized",
\* represented by the payload it digests
CacheKey(kind, prompt, locale) == <<kind, locale, NormalizePrompt(prompt)>>

(***************************************************************************)
(* DailyLimiter (costs.py)                                                 *)
(***************************************************************************)
\* datetime.date() as a day number
Date(t) == t \div DaySeconds

\* now.replace(hour=0, minute=0, second=0, microsecond=0)
StartOfDay(t) == Date(t) * DaySeconds

\* DailyLimiter.__init__
NewLimiter(soft_limit, hard_limit) ==
    LET soft == Max(0, soft_limit)
    IN [soft_limit |-> soft,
        hard_limit |-> Max(soft, hard_limit),
        today_spend |-> 0,
        mode |-> "normal",
        last_refreshed |-> None]

\* DailyLimiter._update_mode
UpdateMode(L) ==
    [L EXCEPT !.mode = IF L.today_spend >= L.hard_limit THEN "hard"
                       ELSE IF L.today_spend >= L.soft_limit THEN "soft"
                       ELSE "normal"]

\* _ensure_current_day that only moves the timestamp
EnsureCurrentDay_NoReset(L, current) ==
    [L EXCEPT !.last_refreshed = current]

\* DailyLimiter._ensure_current_day
EnsureCurrentDay(L, current) ==
    IF L.last_refreshed = None
    THEN [L EXCEPT !.last_refreshed = current]
    ELSE IF Date(L.last_refreshed) # Date(current)
         THEN [L EXCEPT !.today_spend = 0, !.mode = "normal",
                        !.last_refreshed = current]
         ELSE [L EXCEPT !.last_refreshed = current]

\* register without the day check
Register_NoRollover(L, usd_cost, t) ==
    LET L2 == [L EXCEPT !.today_spend = @ + usd_cost]
    IN [UpdateMode(L2) EXCEPT !.last_refreshed = t]

\* register that stores the cost in place of adding it
Register_Overwrites(L, usd_cost, t) ==
    LET L1 == EnsureCurrentDay(L, t)
        L2 == [L1 EXCEPT !.today_spend = usd_cost]
    IN [UpdateMode(L2) EXCEPT !.last_refreshed = t]

\* DailyLimiter.register
Register(L, usd_cost, t) ==
    LET L1 == EnsureCurrentDay(L, t)
        L2 == [L1 EXCEPT !.today_spend = @ + usd_cost]
    IN [UpdateMode(L2) EXCEPT !.last_refreshed = t]

\* set_limits without the final _update_mode
SetLimits_NoUpdate(L, soft_limit, hard_limit, t) ==
    LET L1 == EnsureCurrentDay(L, t)
        soft == Max(0, soft_limit)
    IN [L1 EXCEPT !.soft_limit = soft, !.hard_limit = Max(soft, hard_limit)]

\* set_limits that stores its arguments as given
SetLimits_NoClamp(L, soft_limit, hard_limit, t) ==
    LET L1 == EnsureCurrentDay(L, t)
    IN UpdateMode([L1 EXCEPT !.soft_limit = soft_limit,
                             !.hard_limit = hard_limit])

\* DailyLimiter.set_limits
SetLimits(L, soft_limit, hard_limit, t) ==
    LET L1 == EnsureCurrentDay(L, t)
        soft == Max(0, soft_limit)
    IN UpdateMode([L1 EXCEPT !.soft_limit = soft,
                             !.hard_limit = Max(soft, hard_limit)])

\* DailyLimiter.refresh, given what usage_total_since(start_of_day) returned
Refresh(L, t, total) ==
    LET L1 == EnsureCurrentDay(L, t)
        L2 == [L1 EXCEPT !.today_spend = total]
    IN [UpdateMode(L2) EXCEPT !.last_refreshed = t]

\* The mode and today_spend properties: the value returned and the limiter
\* as the read leaves it
ModeRead(L, t) == EnsureCurrentDay(L, t).mode
TodaySpendRead(L, t) == EnsureCurrentDay(L, t).today_spend

(***************************************************************************)
(* Storage (services/storage.py)                                           *)
(***************************************************************************)
RECURSIVE SumCost(_)
SumCost(rows) ==
    IF rows = <<>> THEN 0 ELSE Head(rows).usd_cost + SumCost(Tail(rows))

\* StorageService.usage_total_since
UsageTotalSince(rows, since) ==
    SumCost(SelectSeq(rows, LAMBDA r : r.ts >= since))

\* record_usage that overwrites the newest row
RecordUsage_Overwrites(rows, model, kind, source, tokens_in, tokens_out, usd_cost, t) ==
    LET row == [ts |-> t, model |-> model, kind |-> kind, source |-> source,
                tokens_in |-> tokens_in, tokens_out |-> tokens_out,
                usd_cost |-> usd_cost]
    IN IF rows = <<>> THEN <<row>>
       ELSE [rows EXCEPT ![Len(rows)] = row]

\* StorageService.record_usage
RecordUsage(rows, model, kind, source, tokens_in, tokens_out, usd_cost, t) ==
    Append(rows, [ts |-> t, model |-> model, kind |-> kind, source |-> source,
                  tokens_in |-> tokens_in, tokens_out |-> tokens_out,
                  usd_cost |-> usd_cost])

NoEntry == [cache_key |-> <<>>]

\* The row StorageService.get_cache_entry selects
CacheRow(rows, cache_key) ==
    IF \E e \in rows : e.cache_key = cache_key
    THEN CHOOSE e \in rows : e.cache_key = cache_key
    ELSE NoEntry

\* get_cache_entry that still returns an entry at the instant it expires
GetCacheEntry_LiveAtExpiry(rows, cache_key, t) ==
    LET entry == CacheRow(rows, cache_key)
    IN IF entry = NoEntry THEN NoEntry
       ELSE IF entry.expires_at < t THEN NoEntry
       ELSE entry

\* get_cache_entry with the expiry comparison inverted
GetCacheEntry_ExpiryInverted(rows, cache_key, t) ==
    LET entry == CacheRow(rows, cache_key)
    IN IF entry = NoEntry THEN NoEntry
       ELSE IF entry.expires_at > t THEN NoEntry
       ELSE entry

\* StorageService.get_cache_entry: the entry returned
GetCacheEntry(rows, cache_key, t) ==
    LET entry == CacheRow(rows, cache_key)
    IN IF entry = NoEntry THEN NoEntry
       ELSE IF entry.expires_at <= t THEN NoEntry
       ELSE entry

\* StorageService.get_cache_entry: the table after the lookup (an expired
\* row is deleted)
CacheAfterGet(rows, cache_key, t) ==
    LET entry == CacheRow(rows, cache_key)
    IN IF entry # NoEntry /\ entry.expires_at <= t THEN rows \ {entry}
       ELSE rows

\* StorageService.upsert_cache_entry
UpsertCacheEntry(rows, cache_key, kind, locale, prompt, response_text, model, source, tokens_in, tokens_out, usd_cost, ttl_seconds, t) ==
    {e \in rows : e.cache_key # cache_key} \cup
        {[cache_key |-> cache_key, kind |-> kind, locale |-> locale,
          prompt |-> prompt, response_text |-> response_text,
          model |-> model, source |-> source, tokens_in |-> tokens_in,
          tokens_out |-> tokens_out, usd_cost |-> usd_cost,
          expires_at |-> t + ttl_seconds]}

(***************************************************************************)
(* PromptCache (cache.py)                                                  *)
(***************************************************************************)
\* PromptCache.__init__: self._ttl_seconds
TtlSeconds == Max(MinTtl, AiCacheTtlSec)

\* PromptCache.get
CacheGet(rows, kind, prompt, locale, t) ==
    GetCacheEntry(rows, CacheKey(kind, prompt, locale), t)

\* set without the length guard
CacheSet_NoGuard(rows, kind, prompt, locale, response_text, model, source, tokens_in, tokens_out, usd_cost, t) ==
    UpsertCacheEntry(rows, CacheKey(kind, prompt, locale), kind, locale,
                     prompt, response_text, model, source, tokens_in,
                     tokens_out, usd_cost, TtlSeconds, t)

\* PromptCache.set
CacheSet(rows, kind, prompt, locale, response_text, model, source, tokens_in, tokens_out, usd_cost, t) ==
    IF Len(Strip(response_text)) < MinCacheLen THEN rows
    ELSE UpsertCacheEntry(rows, CacheKey(kind, prompt, locale), kind, locale,
                          prompt, response_text, model, source, tokens_in,
                          tokens_out, usd_cost, TtlSeconds, t)

\* StorageService.get_setting / set_setting keys
AI_MODE_KEY == "ai_router_mode"
AI_SOFT_LIMIT_KEY == "ai_soft_limit"
AI_HARD_LIMIT_KEY == "ai_hard_limit"

\* f"{value:.2f}" read back with float(), on half-cent units: the binary
\* value of u * 0.005 decides the direction in which an odd u is rounded
Format2f(u) ==
    IF u % 2 = 0 THEN u
    ELSE CASE u = -3 -> -2 [] u = -1 -> -2 [] u = 1 -> 2 [] u = 3 -> 2
           [] u = 5 -> 6 [] u = 7 -> 8 [] u = 9 -> 8

\* StorageService.set_setting
SetSetting(db, key, value) ==
    [k \in DOMAIN db \cup {key} |-> IF k = key THEN value ELSE db[k]]

\* StorageService.ensure_ai_config: the configuration returned
EnsureAiConfig(db, default_mode, soft_limit, hard_limit) ==
    LET mode == IF AI_MODE_KEY \in DOMAIN db /\ db[AI_MODE_KEY] # ""
                THEN db[AI_MODE_KEY] ELSE default_mode
        soft_value == IF AI_SOFT_LIMIT_KEY \in DOMAIN db
                      THEN db[AI_SOFT_LIMIT_KEY] ELSE soft_limit
        hard_stored == IF AI_HARD_LIMIT_KEY \in DOMAIN db
                       THEN db[AI_HARD_LIMIT_KEY] ELSE hard_limit
        hard_value == IF hard_stored < soft_value
                      THEN Max(soft_value, hard_limit) ELSE hard_stored
    IN [mode |-> mode, soft_limit |-> soft_value, hard_limit |-> hard_value]

\* StorageService.update_ai_limits: the limits returned
UpdateAiLimits(soft_limit, hard_limit) ==
    LET soft_value == Max(0, soft_limit)
    IN [soft_limit |-> soft_value, hard_limit |-> Max(soft_value, hard_limit)]

\* The settings table after ensure_ai_config / update_ai_limits stored limits
StoreLimits(db, limits) ==
    SetSetting(SetSetting(db, AI_SOFT_LIMIT_KEY, Format2f(limits.soft_limit)),
               AI_HARD_LIMIT_KEY, Format2f(limits.hard_limit))

(***************************************************************************)
(* Generators (templates.py, local_llm.py) and the provider client         *)
(***************************************************************************)
\* A fixed sentence of the source: a tag that names it, padded to its length
Sentence(tag, n) == <<tag>> \o Rep(".", n - 1)

\* templates.choose_template
ChooseTemplate(kind, locale) ==
    LET locale_norm == IF locale \in {"ru", "en"} THEN locale ELSE "ru"
        ru == locale_norm = "ru"
    IN CASE kind = "quick_tip" ->
              IF ru THEN Sentence("T-quick-ru", 58) ELSE Sentence("T-quick-en", 71)
         [] kind = "breathing_hint" ->
              IF ru THEN Sentence("T-breath-ru", 69) ELSE Sentence("T-breath-en", 77)
         [] kind = "mood_reply" ->
              IF ru THEN Sentence("T-mood-ru", 78) ELSE Sentence("T-mood-en", 78)
         [] OTHER ->
              IF ru THEN Sentence("T-fallback-ru", 67) ELSE Sentence("T-fallback-en", 80)

\* local_llm.generate_local_response
GenerateLocalResponse(kind, prompt, locale) ==
    LET ru == locale = "ru"
    IN IF kind \in {"breathing_hint", "quick_tip"}
       THEN IF ru THEN Sentence("L-breath-ru", 91) ELSE Sentence("L-breath-en", 97)
       ELSE IF kind = "weekly_review"
       THEN IF ru THEN Sentence("L-weekly-ru", 68) ELSE Sentence("L-weekly-en", 73)
       ELSE IF kind = "deep_insight"
       THEN IF ru THEN Sentence("L-deep-ru", 75) ELSE Sentence("L-deep-en", 70)
       ELSE IF ru THEN Sentence("L-default-ru", 56) ELSE Sentence("L-default-en", 66)

\* settings.openai_model_primary / openai_model_deep
PrimaryModel == "gpt-4-mini"
DeepModel == "gpt-4-turbo"

\* What OpenAIClient.complete can do: raise, or return
\* (text, tokens_in, tokens_out, cost)
Raises == [raises |-> TRUE]
Reply(text, tokens_in, tokens_out, cost) ==
    [raises |-> FALSE, text |-> text, tokens_in |-> tokens_in,
     tokens_out |-> tokens_out, cost |-> cost]

LongText == <<"i">> \o Rep("n", MinCacheLen - 1) \o <<" ">>
ShortText == Rep("n", MinCacheLen - 1)
PaddedShortText == <<" ">> \o ShortText \o <<" ", "\t">>
BlankText == <<" ", "\t">>
EmptyText == <<>>

ProviderOutcomes ==
    {Raises,
     Reply(LongText, 50, 60, 1)}

(***************************************************************************)
(* UsageTracker (costs.py)                                                 *)
(***************************************************************************)
\* UsageTracker.record: the usage table and the limiter afterwards
TrackerRecord(rows, L, model, kind, source, tokens_in, tokens_out, usd_cost, t) ==
    [usage |-> RecordUsage(rows, model, kind, source, tokens_in, tokens_out,
                           usd_cost, t),
     limiter |-> Register(L, usd_cost, t)]

\* record_cache_hit that does not persist the record
RecordCacheHit_Skips(rows, L, kind, model, t) ==
    [usage |-> rows, limiter |-> L]

\* UsageTracker.record_cache_hit
RecordCacheHit(rows, L, kind, model, t) ==
    [usage |-> RecordUsage(rows, model, kind, "cache", 0, 0, 0, t),
     limiter |-> L]

\* record_zero_cost that persists the record twice
RecordZeroCost_Twice(rows, L, kind, model, source, t) ==
    [usage |-> RecordUsage(RecordUsage(rows, model, kind, source, 0, 0, 0, t),
                           model, kind, source, 0, 0, 0, t),
     limiter |-> L]

\* record_zero_cost that goes through the limiter like record does
RecordZeroCost_Registers(rows, L, kind, model, source, t) ==
    [usage |-> RecordUsage(rows, model, kind, source, 0, 0, 0, t),
     limiter |-> Register(L, 1, t)]

\* UsageTracker.record_zero_cost
RecordZeroCost(rows, L, kind, model, source, t) ==
    [usage |-> RecordUsage(rows, model, kind, source, 0, 0, 0, t),
     limiter |-> L]

(***************************************************************************)
(* AIRouter (router.py)                                                    *)
(***************************************************************************)
RouterModes == {"auto", "mini_only", "local_only", "turbo_only"}

\* _base_route_for_kind whose default is the high-cost tier
BaseRouteForKind_DefaultTurbo(kind) ==
    IF kind \in {"quick_tip", "breathing_hint"} THEN "template"
    ELSE IF kind = "mood_reply" THEN "mini"
    ELSE "turbo"

\* AIRouter._base_route_for_kind
BaseRouteForKind(kind) ==
    IF kind \in {"quick_tip", "breathing_hint"} THEN "template"
    ELSE IF kind = "mood_reply" THEN "mini"
    ELSE IF kind \in {"deep_insight", "weekly_review"} THEN "turbo"
    ELSE "mini"

\* _select_route that treats local_only like auto
SelectRoute_IgnoresLocalOnly(kind, forced, limiter_mode, has_key) ==
    LET base0 == BaseRouteForKind(kind)
        base1 == IF forced = "mini_only" THEN "mini"
                 ELSE IF forced = "turbo_only" THEN "turbo"
                 ELSE base0
        base2 == IF limiter_mode = "soft" /\ base1 = "turbo" THEN "mini" ELSE base1
        base3 == IF base2 = "turbo" /\ ~has_key THEN "mini" ELSE base2
    IN IF limiter_mode = "hard" THEN "local"
       ELSE IF base3 \in {"mini", "turbo"} /\ ~has_key THEN "local"
       ELSE base3

\* _select_route without the soft-budget downgrade
SelectRoute_NoSoftDowngrade(kind, forced, limiter_mode, has_key) ==
    LET base0 == BaseRouteForKind(kind)
        base1 == IF forced = "mini_only" THEN "mini"
                 ELSE IF forced = "turbo_only" THEN "turbo"
                 ELSE base0
        base3 == IF base1 = "turbo" /\ ~has_key THEN "mini" ELSE base1
    IN IF forced = "local_only" THEN "local"
       ELSE IF limiter_mode = "hard" THEN "local"
       ELSE IF base3 \in {"mini", "turbo"} /\ ~has_key THEN "local"
       ELSE base3

\* _select_route whose credential check covers the high-cost tier only
SelectRoute_MiniWithoutKey(kind, forced, limiter_mode, has_key) ==
    LET base0 == BaseRouteForKind(kind)
        base1 == IF forced = "mini_only" THEN "mini"
                 ELSE IF forced = "turbo_only" THEN "turbo"
                 ELSE base0
        base2 == IF limiter_mode = "soft" /\ base1 = "turbo" THEN "mini" ELSE base1
        base3 == IF base2 = "turbo" /\ ~has_key THEN "mini" ELSE base2
    IN IF forced = "local_only" THEN "local"
       ELSE IF limiter_mode = "hard" THEN "local"
       ELSE base3

\* AIRouter._select_route
SelectRoute(kind, forced, limiter_mode, has_key) ==
    LET base0 == BaseRouteForKind(kind)
        base1 == IF forced = "mini_only" THEN "mini"
                 ELSE IF forced = "turbo_only" THEN "turbo"
                 ELSE base0
        base2 == IF limiter_mode = "soft" /\ base1 = "turbo" THEN "mini" ELSE base1
        base3 == IF base2 = "turbo" /\ ~has_key THEN "mini" ELSE base2
    IN IF forced = "local_only" THEN "local"
       ELSE IF limiter_mode = "hard" THEN "local"
       ELSE IF base3 \in {"mini", "turbo"} /\ ~has_key THEN "local"
       ELSE base3

\* The budget gate left out
BudgetGate_Off(limiter_mode) == FALSE

\* AIRouter.ask, the budget gate: the request is rejected
BudgetGate(limiter_mode) == limiter_mode = "hard"

\* AIResponse
AIResponse(text, source, model, tokens_in, tokens_out, usd_cost, cached) ==
    [text |-> text, source |-> source, model |-> model, tokens_in |-> tokens_in,
     tokens_out |-> tokens_out, usd_cost |-> usd_cost, cached |-> cached]

NoResponse == [source |-> "none"]

\* The text of a paid answer without the local replacement
ResponseText_NoFallback(response_text, kind, text, locale) ==
    Strip(response_text)

\* AIRouter.ask: the text of a paid answer,
\* response_text.strip() or generate_local_response(kind, text, locale_norm)
ResponseText(response_text, kind, text, locale) ==
    IF Strip(response_text) # <<>> THEN Strip(response_text)
    ELSE GenerateLocalResponse(kind, text, locale)

\* What a call leaves in `last`: the arguments and result of an ask, whether
\* it invoked the provider client and what the client returned, or for a
\* direct call on the limiter or the cache its argument, the value it
\* returned and what the call found
Call(op, kind, text, locale, use_cache, outcome, response, openai_calls, openai_model, openai_raised, openai_text) ==
    [op |-> op, kind |-> kind, text |-> text, locale |-> locale,
     use_cache |-> use_cache, outcome |-> outcome, response |-> response,
     openai_calls |-> openai_calls, openai_model |-> openai_model,
     openai_raised |-> openai_raised, openai_text |-> openai_text]

OtherCall(op, arg, returned, before) ==
    Call(op, "", <<>>, "", FALSE, "ok",
         [source |-> "none", arg |-> arg, returned |-> returned,
          before |-> before],
         0, "", FALSE, <<>>)

Idle == OtherCall("idle", 0, 0, 0)

\* ask that offers the answer of the local route to the cache
AskResult_CachesLocal(kind, text, locale, use_cache, complete) ==
    LET locale_norm == IF locale \in {"ru", "en"} THEN locale ELSE "ru"
        cached == IF use_cache
                  THEN CacheGet(cache, kind, text, locale_norm, now)
                  ELSE NoEntry
        cache1 == IF use_cache
                  THEN CacheAfterGet(cache, CacheKey(kind, text, locale_norm), now)
                  ELSE cache
        L1 == EnsureCurrentDay(limiter, now)
        limiter_mode == L1.mode
        route == SelectRoute(kind, router_mode, limiter_mode,
                             settings.openai_api_key)
        model == IF route = "mini" THEN PrimaryModel ELSE DeepModel
        Done(c, tracked, outcome, response, calls, called_model) ==
            [cache |-> c, usage |-> tracked.usage, limiter |-> tracked.limiter,
             answered |-> IF outcome = "answer" THEN answered + 1 ELSE answered,
             last |-> Call("ask", kind, text, locale, use_cache, outcome,
                           response, calls, called_model,
                           calls = 1 /\ complete.raises,
                           IF calls = 1 /\ ~complete.raises
                           THEN complete.text ELSE <<>>)]
    IN IF cached # NoEntry
       THEN Done(cache1,
                 RecordCacheHit(usage, limiter, kind, cached.model, now),
                 "answer",
                 AIResponse(cached.response_text, "cache", cached.model,
                            cached.tokens_in, cached.tokens_out, 0, TRUE),
                 0, "")
       ELSE IF BudgetGate(limiter_mode)
       THEN Done(cache1, [usage |-> usage, limiter |-> L1],
                 "HardLimitExceeded", NoResponse, 0, "")
       ELSE IF route = "template"
       THEN Done(cache1,
                 RecordZeroCost(usage, L1, kind, "template", "template", now),
                 "answer",
                 AIResponse(ChooseTemplate(kind, locale_norm), "template",
                            "template", 0, 0, 0, FALSE),
                 0, "")
       ELSE IF route = "local"
       THEN Done(CacheSet(cache1, kind, text, locale_norm,
                          GenerateLocalResponse(kind, text, locale_norm),
                          "local", "local", 0, 0, 0, now),
                 RecordZeroCost(usage, L1, kind, "local", "local", now),
                 "answer",
                 AIResponse(GenerateLocalResponse(kind, text, locale_norm),
                            "local", "local", 0, 0, 0, FALSE),
                 0, "")
       ELSE IF complete.raises
       THEN Done(cache1,
                 RecordZeroCost(usage, L1, kind, "local", "local", now),
                 "answer",
                 AIResponse(GenerateLocalResponse(kind, text, locale_norm),
                            "local", "local", 0, 0, 0, FALSE),
                 1, model)
       ELSE LET response_text ==
                    ResponseText(complete.text, kind, text, locale_norm)
            IN Done(CacheSet(cache1, kind, text, locale_norm, response_text,
                             model, route, complete.tokens_in,
                             complete.tokens_out, complete.cost, now),
                    TrackerRecord(usage, L1, model, kind, route,
                                  complete.tokens_in, complete.tokens_out,
                                  complete.cost, now),
                    "answer",
                    AIResponse(response_text, route, model, complete.tokens_in,
                               complete.tokens_out, complete.cost, FALSE),
                    1, model)

\* AIRouter.ask: the stores, the limiter and the call record afterwards.
\* complete is what the provider client does if it is invoked.
AskResult(kind, text, locale, use_cache, complete) ==
    LET locale_norm == IF locale \in {"ru", "en"} THEN locale ELSE "ru"
        cached == IF use_cache
                  THEN CacheGet(cache, kind, text, locale_norm, now)
                  ELSE NoEntry
        cache1 == IF use_cache
                  THEN CacheAfterGet(cache, CacheKey(kind, text, locale_norm), now)
                  ELSE cache
        L1 == EnsureCurrentDay(limiter, now)
        limiter_mode == L1.mode
        route == SelectRoute(kind, router_mode, limiter_mode,
                             settings.openai_api_key)
        model == IF route = "mini" THEN PrimaryModel ELSE DeepModel
        Done(c, tracked, outcome, response, calls, called_model) ==
            [cache |-> c, usage |-> tracked.usage, limiter |-> tracked.limiter,
             answered |-> IF outcome = "answer" THEN answered + 1 ELSE answered,
             last |-> Call("ask", kind, text, locale, use_cache, outcome,
                           response, calls, called_model,
                           calls = 1 /\ complete.raises,
                           IF calls = 1 /\ ~complete.raises
                           THEN complete.text ELSE <<>>)]
    IN IF cached # NoEntry
       THEN Done(cache1,
                 RecordCacheHit(usage, limiter, kind, cached.model, now),
                 "answer",
                 AIResponse(cached.response_text, "cache", cached.model,
                            cached.tokens_in, cached.tokens_out, 0, TRUE),
                 0, "")
       ELSE IF BudgetGate(limiter_mode)
       THEN Done(cache1, [usage |-> usage, limiter |-> L1],
                 "HardLimitExceeded", NoResponse, 0, "")
       ELSE IF route = "template"
       THEN Done(cache1,
                 RecordZeroCost(usage, L1, kind, "template", "template", now),
                 "answer",
                 AIResponse(ChooseTemplate(kind, locale_norm), "template",
                            "template", 0, 0, 0, FALSE),
                 0, "")
       ELSE IF route = "local"
       THEN Done(cache1,
                 RecordZeroCost(usage, L1, kind, "local", "local", now),
                 "answer",
                 AIResponse(GenerateLocalResponse(kind, text, locale_norm),
                            "local", "local", 0, 0, 0, FALSE),
                 0, "")
       ELSE IF complete.raises
       THEN Done(cache1,
                 RecordZeroCost(usage, L1, kind, "local", "local", now),
                 "answer",
                 AIResponse(GenerateLocalResponse(kind, text, locale_norm),
                            "local", "local", 0, 0, 0, FALSE),
                 1, model)
       ELSE LET response_text ==
                    ResponseText(complete.text, kind, text, locale_norm)
            IN Done(CacheSet(cache1, kind, text, locale_norm, response_text,
                             model, route, complete.tokens_in,
                             complete.tokens_out, complete.cost, now),
                    TrackerRecord(usage, L1, model, kind, route,
                                  complete.tokens_in, complete.tokens_out,
                                  complete.cost, now),
                    "answer",
                    AIResponse(response_text, route, model, complete.tokens_in,
                               complete.tokens_out, complete.cost, FALSE),
                    1, model)

\* set_mode that stores the mode as given
NormalizeMode_Identity(mode) == mode

\* AIRouter.set_mode: the mode stored and returned
NormalizeMode(mode) == IF mode \in RouterModes THEN mode ELSE "auto"

(***************************************************************************)
(* Inputs                                                                  *)
(***************************************************************************)
Kinds == {"quick_tip", "deep_insight"}
Locales == {"en"}
Prompts == {<<"a">>}
ModeInputs == RouterModes \cup {"fast"}
SoftInputs == {1}
HardInputs == {0, 2}

(***************************************************************************)
(* The services beside the router, as app startup constructs them          *)
(***************************************************************************)
\* RateLimiter.__init__, ModeManager.__init__, TelegramService.__init__ with
\* no update in flight, WeeklyInsightsEngine.__init__ and the empty insights
\* table; no set_mode, set_limits or restart has happened
NoServices ==
    /\ monotonic = 0
    /\ buckets = <<>>
    /\ granted = <<>>
    /\ app_mode = "offline"
    /\ send = [pc |-> "idle", chat_id |-> None, callback |-> FALSE,
               attempt |-> 0, sent |-> 0, slept |-> 0, delivered |-> FALSE,
               updates |-> 0]
    /\ insights = {}
    /\ recent_runs = <<>>
    /\ computed = <<>>
    /\ applied = [mode |-> "", soft_limit |-> None, hard_limit |-> None,
                  restarts |-> 0]

(***************************************************************************)
(* The router and its stores                                               *)
(***************************************************************************)
\* Settings, the empty database, and the objects app startup constructs
Init ==
    /\ now = ClockStep
    /\ settings \in [openai_api_key : BOOLEAN,
                     ai_router_mode : {"auto"},
                     openai_soft_limit_usd : {1},
                     openai_daily_limit_usd : {2}]
    /\ limiter = NewLimiter(settings.openai_soft_limit_usd,
                            settings.openai_daily_limit_usd)
    /\ router_mode = settings.ai_router_mode
    /\ initialized = FALSE
    /\ cache = {}
    /\ usage = <<>>
    /\ settings_db = <<>>
    /\ answered = 0
    /\ NoServices
    /\ tasks = <<>>
    /\ last = Idle

\* AIRouter.initialize
Initialize ==
    /\ ~initialized
    /\ LET config == EnsureAiConfig(settings_db, router_mode,
                                    settings.openai_soft_limit_usd,
                                    settings.openai_daily_limit_usd)
           L1 == SetLimits(limiter, config.soft_limit, config.hard_limit, now)
       IN /\ router_mode' = config.mode
          /\ settings_db' = StoreLimits(SetSetting(settings_db, AI_MODE_KEY,
                                                   config.mode), config)
          /\ limiter' = Refresh(L1, now, UsageTotalSince(usage, StartOfDay(now)))
    /\ initialized' = TRUE
    /\ last' = Idle
    /\ UNCHANGED <<applied, services, tasks, now, settings, cache, usage, answered>>

\* The wall clock advances
Tick ==
    /\ now < (MaxTicks + 1) * ClockStep
    /\ now' = now + ClockStep
    /\ last' = Idle
    /\ UNCHANGED <<applied, services, tasks, limiter, settings, router_mode, initialized, cache, usage,
                   settings_db, answered>>

\* AIRouter.ask
Ask(kind, text, locale, use_cache, complete) ==
    /\ initialized
    /\ LET res == AskResult(kind, text, locale, use_cache, complete)
       IN /\ Len(res.usage) <= MaxUsage
          /\ res.answered <= MaxUsage
          /\ cache' = res.cache
          /\ usage' = res.usage
          /\ limiter' = res.limiter
          /\ answered' = res.answered
          /\ last' = res.last
    /\ UNCHANGED <<applied, services, tasks, now, settings, router_mode, initialized, settings_db>>

\* AIRouter.set_mode
SetMode(mode) ==
    /\ initialized
    /\ router_mode' = NormalizeMode(mode)
    /\ settings_db' = SetSetting(settings_db, AI_MODE_KEY, NormalizeMode(mode))
    /\ last' = Idle
    /\ UNCHANGED <<applied, services, tasks, now, limiter, settings, initialized, cache, usage, answered>>

\* AIRouter.set_limits
RouterSetLimits(soft_limit, hard_limit) ==
    /\ initialized
    /\ LET stored == UpdateAiLimits(soft_limit, hard_limit)
       IN /\ settings_db' = StoreLimits(settings_db, stored)
          /\ limiter' = SetLimits(limiter, stored.soft_limit, stored.hard_limit,
                                  now)
          /\ last' = Idle
    /\ UNCHANGED <<applied, services, tasks, now, settings, router_mode, initialized, cache, usage,
                   answered>>

\* AIRouter.refresh_limits
RefreshLimits ==
    /\ initialized
    /\ limiter' = Refresh(limiter, now, UsageTotalSince(usage, StartOfDay(now)))
    /\ last' = Idle
    /\ UNCHANGED <<applied, services, tasks, now, settings, router_mode, initialized, cache, usage,
                   settings_db, answered>>

Next ==
    \/ Initialize
    \/ Tick
    \/ \E kind \in Kinds, text \in Prompts, locale \in Locales,
          use_cache \in BOOLEAN, complete \in ProviderOutcomes :
          Ask(kind, text, locale, use_cache, complete)
    \/ \E mode \in ModeInputs : SetMode(mode)
    \/ \E soft_limit \in SoftInputs, hard_limit \in HardInputs :
          RouterSetLimits(soft_limit, hard_limit)
    \/ RefreshLimits

Spec == Init /\ [][Next]_vars

(***************************************************************************)
(* The limiter on its own, driven by direct calls                          *)
(***************************************************************************)
LedgerLimitInputs == {-1, 0, 1, 2}
CostInputs == {0, 1, 2}

InitLedger ==
    /\ now = ClockStep
    /\ settings \in [openai_api_key : {TRUE},
                     ai_router_mode : {"auto"},
                     openai_soft_limit_usd : LedgerLimitInputs,
                     openai_daily_limit_usd : LedgerLimitInputs]
    /\ limiter = NewLimiter(settings.openai_soft_limit_usd,
                            settings.openai_daily_limit_usd)
    /\ router_mode = settings.ai_router_mode
    /\ initialized = FALSE
    /\ cache = {}
    /\ usage = <<>>
    /\ settings_db = <<>>
    /\ answered = 0
    /\ NoServices
    /\ tasks = <<>>
    /\ last = OtherCall("__init__",
                        <<settings.openai_soft_limit_usd,
                          settings.openai_daily_limit_usd>>, 0, 0)

LedgerFrame ==
    UNCHANGED <<applied, services, tasks, now, settings, router_mode, initialized, cache, usage,
                settings_db, answered>>

\* DailyLimiter.register
LedgerRegister(usd_cost) ==
    /\ limiter.today_spend + usd_cost <= MaxSpend
    /\ limiter' = Register(limiter, usd_cost, now)
    /\ last' = OtherCall("register", usd_cost, 0, limiter)
    /\ LedgerFrame

\* DailyLimiter.set_limits
LedgerSetLimits(soft_limit, hard_limit) ==
    /\ limiter' = SetLimits(limiter, soft_limit, hard_limit, now)
    /\ last' = OtherCall("set_limits", <<soft_limit, hard_limit>>, 0, limiter)
    /\ LedgerFrame

\* DailyLimiter.refresh; the storage reports total as today's spend
LedgerRefresh(total) ==
    /\ limiter' = Refresh(limiter, now, total)
    /\ last' = OtherCall("refresh", total, 0, limiter)
    /\ LedgerFrame

\* DailyLimiter.mode
LedgerMode ==
    /\ limiter' = EnsureCurrentDay(limiter, now)
    /\ last' = OtherCall("mode", 0, ModeRead(limiter, now), limiter)
    /\ LedgerFrame

\* DailyLimiter.today_spend
LedgerTodaySpend ==
    /\ limiter' = EnsureCurrentDay(limiter, now)
    /\ last' = OtherCall("today_spend", 0, TodaySpendRead(limiter, now), limiter)
    /\ LedgerFrame

NextLedger ==
    \/ Tick
    \/ \E usd_cost \in CostInputs : LedgerRegister(usd_cost)
    \/ \E soft_limit \in LedgerLimitInputs, hard_limit \in LedgerLimitInputs :
          LedgerSetLimits(soft_limit, hard_limit)
    \/ \E total \in 0..MaxSpend : LedgerRefresh(total)
    \/ LedgerMode
    \/ LedgerTodaySpend

SpecLedger == InitLedger /\ [][NextLedger]_vars

(***************************************************************************)
(* Budget degradation: auto mode, a credential, a high-cost kind, no       *)
(* cache, a provider that answers at a positive cost, limits fixed by the  *)
(* configuration                                                           *)
(***************************************************************************)
HighCostKinds == {"deep_insight", "weekly_review"}
PaidAnswers == {Reply(LongText, 50, 60, 1), Reply(ShortText, 50, 60, 2)}

InitBudget ==
    /\ now = ClockStep
    /\ settings \in [openai_api_key : {TRUE},
                     ai_router_mode : {"auto"},
                     openai_soft_limit_usd : {0, 1},
                     openai_daily_limit_usd : {0, 2, 3}]
    /\ limiter = NewLimiter(settings.openai_soft_limit_usd,
                            settings.openai_daily_limit_usd)
    /\ router_mode = settings.ai_router_mode
    /\ initialized = FALSE
    /\ cache = {}
    /\ usage = <<>>
    /\ settings_db = <<>>
    /\ answered = 0
    /\ NoServices
    /\ tasks = <<>>
    /\ last = Idle

NextBudget ==
    \/ Initialize
    \/ Tick
    \/ \E kind \in HighCostKinds, text \in Prompts, locale \in Locales,
          complete \in PaidAnswers :
          Ask(kind, text, locale, FALSE, complete)

SpecBudget == InitBudget /\ [][NextBudget]_vars

(***************************************************************************)
(* Route resolution: every kind, every forced mode, with and without a     *)
(* credential, limits from the configuration (0 included)                  *)
(***************************************************************************)
MaxRouteAsks == 1

AllKinds == {"quick_tip", "breathing_hint", "mood_reply", "deep_insight", "weekly_review", "journal"}

InitRoute ==
    /\ now = ClockStep
    /\ settings \in [openai_api_key : BOOLEAN,
                     ai_router_mode : {"auto"},
                     openai_soft_limit_usd : {0, 1},
                     openai_daily_limit_usd : {0, 2}]
    /\ limiter = NewLimiter(settings.openai_soft_limit_usd,
                            settings.openai_daily_limit_usd)
    /\ router_mode = settings.ai_router_mode
    /\ initialized = FALSE
    /\ cache = {}
    /\ usage = <<>>
    /\ settings_db = <<>>
    /\ answered = 0
    /\ NoServices
    /\ tasks = <<>>
    /\ last = Idle

NextRoute ==
    \/ Initialize
    \/ Tick
    \/ \E mode \in ModeInputs : SetMode(mode)
    \/ \E kind \in AllKinds, text \in Prompts, locale \in Locales,
          complete \in ProviderOutcomes :
          /\ Len(usage) < MaxRouteAsks
          /\ Ask(kind, text, locale, FALSE, complete)

SpecRoute == InitRoute /\ [][NextRoute]_vars

(***************************************************************************)
(* The prompt cache on its own, driven by direct calls                     *)
(***************************************************************************)
MaxCacheTicks == 2
MaxEntries == 1

CacheLocales == {"ru", "en"}

\* Prompts that differ only in letter case, in leading or trailing
\* whitespace and in the length of internal whitespace runs
PromptVariants == {<<"a", " ", "B">>, <<" ", "A", " ", "\t", "b", " ">>}

CachePrompts == PromptVariants \cup {<<"a", "b">>}
CacheTexts == {LongText, ShortText}

InitCache ==
    /\ now = ClockStep
    /\ settings \in [openai_api_key : {TRUE},
                     ai_router_mode : {"auto"},
                     openai_soft_limit_usd : {1},
                     openai_daily_limit_usd : {2}]
    /\ limiter = NewLimiter(settings.openai_soft_limit_usd,
                            settings.openai_daily_limit_usd)
    /\ router_mode = settings.ai_router_mode
    /\ initialized = FALSE
    /\ cache = {}
    /\ usage = <<>>
    /\ settings_db = <<>>
    /\ answered = 0
    /\ NoServices
    /\ tasks = <<>>
    /\ last = Idle

CacheFrame ==
    UNCHANGED <<applied, services, tasks, now, limiter, settings, router_mode, initialized, usage,
                settings_db, answered>>

\* The wall clock advances, far enough for an entry to outlive its TTL
CacheTick ==
    /\ now < (MaxCacheTicks + 1) * ClockStep
    /\ now' = now + ClockStep
    /\ last' = Idle
    /\ UNCHANGED <<applied, services, tasks, limiter, settings, router_mode, initialized, cache, usage,
                   settings_db, answered>>

\* PromptCache.set
CacheSetOp(kind, prompt, locale, response_text) ==
    /\ LET rows == CacheSet(cache, kind, prompt, locale, response_text,
                            PrimaryModel, "mini", 50, 60, 1, now)
       IN /\ Cardinality(rows) <= MaxEntries
          /\ cache' = rows
    /\ last' = OtherCall("cache_set", <<kind, prompt, locale, response_text>>,
                         0, 0)
    /\ CacheFrame

\* PromptCache.get
CacheGetOp(kind, prompt, locale) ==
    /\ cache' = CacheAfterGet(cache, CacheKey(kind, prompt, locale), now)
    /\ last' = OtherCall("cache_get", <<kind, prompt, locale>>,
                         CacheGet(cache, kind, prompt, locale, now),
                         CacheRow(cache, CacheKey(kind, prompt, locale)))
    /\ CacheFrame

NextCache ==
    \/ CacheTick
    \/ \E kind \in Kinds, prompt \in CachePrompts, locale \in CacheLocales,
          response_text \in CacheTexts :
          CacheSetOp(kind, prompt, locale, response_text)
    \/ \E kind \in Kinds, prompt \in CachePrompts, locale \in CacheLocales :
          CacheGetOp(kind, prompt, locale)

SpecCache == InitCache /\ [][NextCache]_vars

(***************************************************************************)
(* Asks through the cache: paid kinds, supported and unsupported locales,  *)
(* a provider whose answers are long, short or blank                       *)
(***************************************************************************)
MaxCacheAsks == 2

PaidKinds == {"deep_insight", "mood_reply"}
AskLocales == {"ru", "en", "de"}
CacheAnswers == {Reply(LongText, 50, 60, 1), Reply(PaddedShortText, 50, 59, 1), Reply(BlankText, 50, 0, 0), Reply(EmptyText, 50, 0, 0)}

InitAskCache ==
    /\ now = ClockStep
    /\ settings \in [openai_api_key : {TRUE},
                     ai_router_mode : {"auto"},
                     openai_soft_limit_usd : {2},
                     openai_daily_limit_usd : {4}]
    /\ limiter = NewLimiter(settings.openai_soft_limit_usd,
                            settings.openai_daily_limit_usd)
    /\ router_mode = settings.ai_router_mode
    /\ initialized = FALSE
    /\ cache = {}
    /\ usage = <<>>
    /\ settings_db = <<>>
    /\ answered = 0
    /\ NoServices
    /\ tasks = <<>>
    /\ last = Idle

NextAskCache ==
    \/ Initialize
    \/ Tick
    \/ \E kind \in PaidKinds, text \in Prompts, locale \in AskLocales,
          use_cache \in BOOLEAN, complete \in CacheAnswers :
          /\ Len(usage) < MaxCacheAsks
          /\ Ask(kind, text, locale, use_cache, complete)

SpecAskCache == InitAskCache /\ [][NextAskCache]_vars

(***************************************************************************)
(* AIRouter.ask as a coroutine: one action per point where the event loop  *)
(* can switch tasks.  The code between two awaits runs without             *)
(* interruption; a call on the store takes effect in one step, except      *)
(* upsert_cache_entry, whose SELECT and COMMIT are two awaits on one       *)
(* session.  store_ok says whether the store call of the step succeeds; a  *)
(* store call that fails raises and changes nothing in the store.          *)
(***************************************************************************)
NoReply == Reply(<<>>, 0, 0, 0)

\* The frame of ask(kind, text, locale, use_cache) at its first await
NewFrame(kind, text, locale, use_cache, runs) ==
    [pc |-> IF use_cache THEN "cache_get" ELSE "gate",
     kind |-> kind, text |-> text,
     locale |-> IF locale \in {"ru", "en"} THEN locale ELSE "ru",
     use_cache |-> use_cache, cached |-> NoEntry, route |-> "",
     source |-> "", model |-> "", reply |-> NoReply, row |-> 0,
     found |-> FALSE, upsert_at |-> None, outcome |-> "", failed |-> "",
     response |-> NoResponse, runs |-> runs]

\* No ask is running in the task
IdleFrame == [NewFrame("", <<>>, "", FALSE, 0) EXCEPT !.pc = "idle"]

\* The ask ends with an exception; failed names the store call that raised
Raised(f, outcome, failed) ==
    [f EXCEPT !.pc = "raised", !.outcome = outcome, !.failed = failed]

\* The ask returns an AIResponse
Returned(f, response) ==
    [f EXCEPT !.pc = "returned", !.outcome = "answer", !.response = response]

RECURSIVE SumRuns(_, _)
SumRuns(fs, ids) ==
    IF ids = {} THEN 0
    ELSE LET t == CHOOSE x \in ids : TRUE
         IN fs[t].runs + SumRuns(fs, ids \ {t})

\* Number of ask calls made so far
Started == SumRuns(tasks, DOMAIN tasks)

\* A caller invokes ask (router.py:73)
AskBegin(t, kind, text, locale, use_cache, max_asks) ==
    /\ initialized
    /\ tasks[t].pc \in {"idle", "returned", "raised"}
    /\ Started < max_asks
    /\ tasks' = [tasks EXCEPT ![t] = NewFrame(kind, text, locale, use_cache,
                                              tasks[t].runs + 1)]
    /\ UNCHANGED <<applied, services, now, limiter, settings, router_mode, initialized, cache,
                   usage, settings_db, answered, last>>

\* await self._cache.get(kind, text, locale_norm) (router.py:76)
AskCacheGet(t, store_ok) ==
    /\ tasks[t].pc = "cache_get"
    /\ LET f == tasks[t]
           cached == CacheGet(cache, f.kind, f.text, f.locale, now)
       IN IF ~store_ok
          THEN /\ tasks' = [tasks EXCEPT ![t] =
                                Raised(f, "StoreError", "cache_get")]
               /\ cache' = cache
          ELSE /\ tasks' = [tasks EXCEPT ![t] =
                                [f EXCEPT !.cached = cached,
                                          !.pc = IF cached # NoEntry
                                                 THEN "record_hit"
                                                 ELSE "gate"]]
               /\ cache' = CacheAfterGet(cache,
                               CacheKey(f.kind, f.text, f.locale), now)
    /\ UNCHANGED <<applied, services, now, limiter, settings, router_mode, initialized, usage,
                   settings_db, answered, last>>

\* await self._usage_tracker.record_cache_hit(...) and the return of the
\* cached answer (router.py:78-91)
AskRecordCacheHit(t, store_ok) ==
    /\ tasks[t].pc = "record_hit"
    /\ LET f == tasks[t]
           cached == f.cached
       IN IF ~store_ok
          THEN /\ tasks' = [tasks EXCEPT ![t] =
                                Raised(f, "StoreError", "record_usage")]
               /\ UNCHANGED <<usage, answered>>
          ELSE /\ usage' = RecordCacheHit(usage, limiter, f.kind, cached.model,
                                          now).usage
               /\ tasks' = [tasks EXCEPT ![t] =
                     Returned([f EXCEPT !.row = Len(usage) + 1],
                              AIResponse(cached.response_text, "cache",
                                         cached.model, cached.tokens_in,
                                         cached.tokens_out, 0, TRUE))]
               /\ answered' = answered + 1
    /\ UNCHANGED <<applied, services, now, limiter, settings, router_mode, initialized, cache,
                   settings_db, last>>

\* The budget gate and the route selection (router.py:93-125)
AskGate(t) ==
    /\ tasks[t].pc = "gate"
    /\ LET f == tasks[t]
           L1 == EnsureCurrentDay(limiter, now)
           limiter_mode == L1.mode
           route == SelectRoute(f.kind, router_mode, limiter_mode,
                                settings.openai_api_key)
       IN /\ limiter' = L1
          /\ tasks' = [tasks EXCEPT ![t] =
                IF BudgetGate(limiter_mode)
                THEN Raised(f, "HardLimitExceeded", "")
                ELSE IF route \in {"template", "local"}
                THEN [f EXCEPT !.route = route, !.source = route,
                               !.model = route, !.pc = "record_zero"]
                ELSE [f EXCEPT !.route = route, !.source = route,
                               !.model = IF route = "mini" THEN PrimaryModel
                                         ELSE DeepModel,
                               !.pc = "complete"]]
    /\ UNCHANGED <<applied, services, now, settings, router_mode, initialized, cache, usage,
                   settings_db, answered, last>>

\* ask that writes the cache entry before the usage record
AskComplete_CachesFirst(t, complete) ==
    /\ tasks[t].pc = "complete"
    /\ LET f == tasks[t]
           response == AIResponse(ResponseText(complete.text, f.kind, f.text,
                                               f.locale),
                                  f.route, f.model, complete.tokens_in,
                                  complete.tokens_out, complete.cost, FALSE)
       IN tasks' = [tasks EXCEPT ![t] =
              IF complete.raises
              THEN [f EXCEPT !.source = "local", !.model = "local",
                             !.pc = "record_zero"]
              ELSE [f EXCEPT !.reply = complete, !.response = response,
                             !.pc = "upsert_select"]]
    /\ UNCHANGED <<applied, services, now, limiter, settings, router_mode, initialized, cache,
                   usage, settings_db, answered, last>>

\* await self._openai.complete(...) and its except clause (router.py:126-134)
AskComplete(t, complete) ==
    /\ tasks[t].pc = "complete"
    /\ LET f == tasks[t]
       IN tasks' = [tasks EXCEPT ![t] =
              IF complete.raises
              THEN [f EXCEPT !.source = "local", !.model = "local",
                             !.pc = "record_zero"]
              ELSE [f EXCEPT !.reply = complete, !.pc = "record"]]
    /\ UNCHANGED <<applied, services, now, limiter, settings, router_mode, initialized, cache,
                   usage, settings_db, answered, last>>

\* await self._usage_tracker.record_zero_cost(...) and the return of the
\* template or local answer (router.py:104-122, 135-141)
AskRecordZeroCost(t, store_ok) ==
    /\ tasks[t].pc = "record_zero"
    /\ LET f == tasks[t]
           reply == IF f.source = "template"
                    THEN ChooseTemplate(f.kind, f.locale)
                    ELSE GenerateLocalResponse(f.kind, f.text, f.locale)
       IN IF ~store_ok
          THEN /\ tasks' = [tasks EXCEPT ![t] =
                                Raised(f, "StoreError", "record_usage")]
               /\ UNCHANGED <<usage, answered>>
          ELSE /\ usage' = RecordZeroCost(usage, limiter, f.kind, f.model,
                                          f.source, now).usage
               /\ tasks' = [tasks EXCEPT ![t] =
                     Returned([f EXCEPT !.row = Len(usage) + 1],
                              AIResponse(reply, f.source, f.model, 0, 0, 0,
                                         FALSE))]
               /\ answered' = answered + 1
    /\ UNCHANGED <<applied, services, now, limiter, settings, router_mode, initialized, cache,
                   settings_db, last>>

\* record that charges the limiter before the row is persisted
AskRecordUsage_RegistersFirst(t, store_ok) ==
    /\ tasks[t].pc = "record"
    /\ LET f == tasks[t]
       IN /\ limiter' = Register(limiter, f.reply.cost, now)
          /\ IF ~store_ok
             THEN /\ tasks' = [tasks EXCEPT ![t] =
                                   Raised(f, "StoreError", "record_usage")]
                  /\ usage' = usage
             ELSE /\ usage' = RecordUsage(usage, f.model, f.kind, f.route,
                                          f.reply.tokens_in, f.reply.tokens_out,
                                          f.reply.cost, now)
                  /\ tasks' = [tasks EXCEPT ![t] =
                                   [f EXCEPT !.row = Len(usage) + 1,
                                             !.pc = "register"]]
    /\ UNCHANGED <<applied, services, now, settings, router_mode, initialized, cache,
                   settings_db, answered, last>>

\* UsageTracker.record, its await: storage.record_usage (costs.py:139-147)
AskRecordUsage(t, store_ok) ==
    /\ tasks[t].pc = "record"
    /\ LET f == tasks[t]
       IN IF ~store_ok
          THEN /\ tasks' = [tasks EXCEPT ![t] =
                                Raised(f, "StoreError", "record_usage")]
               /\ usage' = usage
          ELSE /\ usage' = RecordUsage(usage, f.model, f.kind, f.route,
                                       f.reply.tokens_in, f.reply.tokens_out,
                                       f.reply.cost, now)
               /\ tasks' = [tasks EXCEPT ![t] =
                                [f EXCEPT !.row = Len(usage) + 1,
                                          !.pc = "register"]]
    /\ UNCHANGED <<applied, services, now, limiter, settings, router_mode, initialized, cache,
                   settings_db, answered, last>>

\* The task resumes after record_usage: limiter.register (costs.py:152), the
\* AIResponse (router.py:154-161) and the length guard of PromptCache.set
\* (cache.py:64-66), up to the first await of the cache write
AskRegister(t) ==
    /\ tasks[t].pc = "register"
    /\ LET f == tasks[t]
           response == AIResponse(ResponseText(f.reply.text, f.kind, f.text,
                                               f.locale),
                                  f.route, f.model, f.reply.tokens_in,
                                  f.reply.tokens_out, f.reply.cost, FALSE)
           skipped == Len(Strip(response.text)) < MinCacheLen
       IN /\ limiter' = Register(limiter, f.reply.cost, now)
          /\ tasks' = [tasks EXCEPT ![t] =
                IF skipped THEN Returned(f, response)
                ELSE [f EXCEPT !.response = response, !.pc = "upsert_select"]]
          /\ answered' = IF skipped THEN answered + 1 ELSE answered
    /\ UNCHANGED <<applied, services, now, settings, router_mode, initialized, cache, usage,
                   settings_db, last>>

\* upsert_cache_entry up to its SELECT (storage.py:545-549)
AskUpsertSelect(t, store_ok) ==
    /\ tasks[t].pc = "upsert_select"
    /\ LET f == tasks[t]
           entry == CacheRow(cache, CacheKey(f.kind, f.text, f.locale))
       IN tasks' = [tasks EXCEPT ![t] =
              IF ~store_ok THEN Raised(f, "StoreError", "cache_set")
              ELSE [f EXCEPT !.found = entry # NoEntry, !.upsert_at = now,
                             !.pc = "upsert_commit"]]
    /\ UNCHANGED <<applied, services, now, limiter, settings, router_mode, initialized, cache,
                   usage, settings_db, answered, last>>

\* upsert_cache_entry from the SELECT to the COMMIT (storage.py:550-576) and
\* the return of the paid answer (router.py:174).  The row the session
\* selected is updated, or a row is inserted: the UPDATE of a row that is
\* gone and the INSERT of a cache_key that exists (uq_prompt_cache_key,
\* models.py:139-141) raise
AskUpsertCommit(t, store_ok) ==
    /\ tasks[t].pc = "upsert_commit"
    /\ LET f == tasks[t]
           entry == CacheRow(cache, CacheKey(f.kind, f.text, f.locale))
           written == UpsertCacheEntry(cache,
                          CacheKey(f.kind, f.text, f.locale), f.kind,
                          f.locale, f.text, f.response.text, f.model, f.route,
                          f.reply.tokens_in, f.reply.tokens_out, f.reply.cost,
                          TtlSeconds, f.upsert_at)
           error == IF ~store_ok THEN "StoreError"
                    ELSE IF f.found /\ entry = NoEntry THEN "StaleDataError"
                    ELSE IF ~f.found /\ entry # NoEntry THEN "IntegrityError"
                    ELSE ""
       IN IF error # ""
          THEN /\ tasks' = [tasks EXCEPT ![t] = Raised(f, error, "cache_set")]
               /\ UNCHANGED <<cache, answered>>
          ELSE /\ cache' = written
               /\ tasks' = [tasks EXCEPT ![t] = Returned(f, f.response)]
               /\ answered' = answered + 1
    /\ UNCHANGED <<applied, services, now, limiter, settings, router_mode, initialized, usage,
                   settings_db, last>>

\* One step of the ask running in task t
AskRun(t, store_ok, complete) ==
    \/ AskCacheGet(t, store_ok)
    \/ AskRecordCacheHit(t, store_ok)
    \/ AskGate(t)
    \/ AskComplete(t, complete)
    \/ AskRecordZeroCost(t, store_ok)
    \/ AskRecordUsage(t, store_ok)
    \/ AskRegister(t)
    \/ AskUpsertSelect(t, store_ok)
    \/ AskUpsertCommit(t, store_ok)

(***************************************************************************)
(* Concurrent asks of one prompt on a healthy store                        *)
(***************************************************************************)
MaxConcAsks == 2

ConcTasks == {1, 2}
ConcKinds == {"deep_insight"}
ConcAnswers == ProviderOutcomes \cup {Reply(LongText, 70, 80, 2)}

InitConc ==
    /\ now = ClockStep
    /\ settings \in [openai_api_key : {TRUE},
                     ai_router_mode : {"auto"},
                     openai_soft_limit_usd : {2},
                     openai_daily_limit_usd : {4}]
    /\ limiter = NewLimiter(settings.openai_soft_limit_usd,
                            settings.openai_daily_limit_usd)
    /\ router_mode = settings.ai_router_mode
    /\ initialized = FALSE
    /\ cache = {}
    /\ usage = <<>>
    /\ settings_db = <<>>
    /\ answered = 0
    /\ NoServices
    /\ tasks = [t \in ConcTasks |-> IdleFrame]
    /\ last = Idle

NextConc ==
    \/ Initialize
    \/ \E t \in ConcTasks, kind \in ConcKinds, text \in Prompts,
          locale \in Locales, use_cache \in BOOLEAN :
          AskBegin(t, kind, text, locale, use_cache, MaxConcAsks)
    \/ \E t \in ConcTasks, complete \in ConcAnswers : AskRun(t, TRUE, complete)

SpecConc == InitConc /\ [][NextConc]_vars

(***************************************************************************)
(* Asks on a store whose calls can fail                                    *)
(***************************************************************************)
MaxFaultAsks == 2

FaultTasks == {1}

InitFaults ==
    /\ now = ClockStep
    /\ settings \in [openai_api_key : {TRUE},
                     ai_router_mode : {"auto"},
                     openai_soft_limit_usd : {1},
                     openai_daily_limit_usd : {2}]
    /\ limiter = NewLimiter(settings.openai_soft_limit_usd,
                            settings.openai_daily_limit_usd)
    /\ router_mode = settings.ai_router_mode
    /\ initialized = FALSE
    /\ cache = {}
    /\ usage = <<>>
    /\ settings_db = <<>>
    /\ answered = 0
    /\ NoServices
    /\ tasks = [t \in FaultTasks |-> IdleFrame]
    /\ last = Idle

NextFaults ==
    \/ Initialize
    \/ Tick
    \/ \E t \in FaultTasks, kind \in Kinds, text \in Prompts,
          locale \in Locales, use_cache \in BOOLEAN :
          AskBegin(t, kind, text, locale, use_cache, MaxFaultAsks)
    \/ \E t \in FaultTasks, store_ok \in BOOLEAN, complete \in ProviderOutcomes :
          AskRun(t, store_ok, complete)

SpecFaults == InitFaults /\ [][NextFaults]_vars

(***************************************************************************)
(* The administrative calls of the router on a store whose calls can fail  *)
(***************************************************************************)
MaxAdminAsks == 1

AdminModeInputs == {"mini_only", "fast"}
AdminSoftInputs == {-1, 2}
AdminHardInputs == {0, 3}
AdminAnswers == {Reply(LongText, 50, 60, 1)}

\* What an administrative call leaves in `last`: its argument, whether it
\* raised, and the value it returned
StoreCall(op, arg, raised, returned) ==
    Call(op, "", <<>>, "", FALSE, IF raised THEN "StoreError" ELSE "ok",
         [source |-> "none", arg |-> arg, returned |-> returned, before |-> 0],
         0, "", FALSE, <<>>)

\* DailyLimiter.refresh when usage_total_since raises: _ensure_current_day
\* has run, the assignment of today_spend has not (costs.py:59-61)
RefreshFailed(L, t) == EnsureCurrentDay(L, t)

\* AIRouter.initialize; read_ok says whether the usage read of
\* limiter.refresh() succeeds
InitializeCall(read_ok) ==
    /\ ~initialized
    /\ LET config == EnsureAiConfig(settings_db, router_mode,
                                    settings.openai_soft_limit_usd,
                                    settings.openai_daily_limit_usd)
           L1 == SetLimits(limiter, config.soft_limit, config.hard_limit, now)
       IN /\ router_mode' = config.mode
          /\ settings_db' = StoreLimits(SetSetting(settings_db, AI_MODE_KEY,
                                                   config.mode), config)
          /\ limiter' = IF read_ok
                        THEN Refresh(L1, now,
                                     UsageTotalSince(usage, StartOfDay(now)))
                        ELSE RefreshFailed(L1, now)
    /\ initialized' = read_ok
    /\ last' = StoreCall("initialize", 0, ~read_ok, 0)
    /\ UNCHANGED <<applied, services, now, settings, cache, usage, answered, tasks>>

\* AIRouter.refresh_limits; read_ok says whether usage_total_since succeeds
RefreshLimitsCall(read_ok) ==
    /\ initialized
    /\ limiter' = IF read_ok
                  THEN Refresh(limiter, now,
                               UsageTotalSince(usage, StartOfDay(now)))
                  ELSE RefreshFailed(limiter, now)
    /\ last' = StoreCall("refresh_limits", 0, ~read_ok, 0)
    /\ UNCHANGED <<applied, services, now, settings, router_mode, initialized, cache, usage,
                   settings_db, answered, tasks>>

\* AIRouter.set_mode; failure is the store call of update_ai_mode that
\* raises: 0 none, 1 set_setting, 2 the audit row
SetModeCall(mode, failure) ==
    /\ initialized
    /\ router_mode' = NormalizeMode(mode)
    /\ settings_db' = IF failure = 1 THEN settings_db
                      ELSE SetSetting(settings_db, AI_MODE_KEY,
                                      NormalizeMode(mode))
    /\ last' = StoreCall("set_mode", mode, failure # 0,
                         IF failure = 0 THEN NormalizeMode(mode) ELSE "")
    /\ applied' = [applied EXCEPT !.mode = IF failure = 0
                                           THEN NormalizeMode(mode) ELSE ""]
    /\ UNCHANGED <<services, now, limiter, settings, initialized, cache, usage, answered,
                   tasks>>

\* AIRouter.set_limits; failure is the store call of update_ai_limits that
\* raises: 0 none, 1 set_setting of the soft limit, 2 set_setting of the
\* hard limit, 3 the audit row
SetLimitsCall(soft_limit, hard_limit, failure) ==
    /\ initialized
    /\ LET stored == UpdateAiLimits(soft_limit, hard_limit)
           soft_db == SetSetting(settings_db, AI_SOFT_LIMIT_KEY,
                                 Format2f(stored.soft_limit))
       IN /\ settings_db' = CASE failure = 1 -> settings_db
                              [] failure = 2 -> soft_db
                              [] OTHER -> StoreLimits(settings_db, stored)
          /\ limiter' = IF failure = 0
                        THEN SetLimits(limiter, stored.soft_limit,
                                       stored.hard_limit, now)
                        ELSE limiter
          /\ last' = StoreCall("set_limits", <<soft_limit, hard_limit>>,
                               failure # 0,
                               IF failure = 0 THEN stored ELSE 0)
          /\ applied' = IF failure = 0
                        THEN [applied EXCEPT
                                 !.soft_limit = stored.soft_limit,
                                 !.hard_limit = stored.hard_limit]
                        ELSE [applied EXCEPT !.soft_limit = None,
                                             !.hard_limit = None]
    /\ UNCHANGED <<services, now, settings, router_mode, initialized, cache, usage,
                   answered, tasks>>

InitAdmin ==
    /\ now = ClockStep
    /\ settings \in [openai_api_key : {TRUE},
                     ai_router_mode : {"auto"},
                     openai_soft_limit_usd : {1},
                     openai_daily_limit_usd : {2}]
    /\ limiter = NewLimiter(settings.openai_soft_limit_usd,
                            settings.openai_daily_limit_usd)
    /\ router_mode = settings.ai_router_mode
    /\ initialized = FALSE
    /\ cache = {}
    /\ usage = <<>>
    /\ settings_db = <<>>
    /\ answered = 0
    /\ NoServices
    /\ tasks = <<>>
    /\ last = Idle

NextAdmin ==
    \/ \E read_ok \in BOOLEAN : InitializeCall(read_ok)
    \/ Tick
    \/ \E complete \in AdminAnswers :
          /\ Len(usage) < MaxAdminAsks
          /\ Ask("deep_insight", <<"a">>, "en", FALSE, complete)
    \/ \E mode \in AdminModeInputs, failure \in 0..2 : SetModeCall(mode, failure)
    \/ \E soft_limit \in AdminSoftInputs, hard_limit \in AdminHardInputs,
          failure \in 0..3 : SetLimitsCall(soft_limit, hard_limit, failure)
    \/ \E read_ok \in BOOLEAN : RefreshLimitsCall(read_ok)

SpecAdmin == InitAdmin /\ [][NextAdmin]_vars

(***************************************************************************)
(* AIRouter.set_mode as a coroutine: concurrent administrative requests    *)
(***************************************************************************)
MaxModeCalls == 2

\* AIRouter.set_mode up to its first suspension: the mode is normalized and
\* assigned, then update_ai_mode is awaited (router.py:209-211); the frame
\* holds the normalized mode and the number of calls the task has made
SetModeBegin(t, mode) ==
    /\ initialized
    /\ t \in DOMAIN tasks => /\ tasks[t].pc \in {"returned", "raised"}
                             /\ tasks[t].runs < MaxModeCalls
    /\ router_mode' = NormalizeMode(mode)
    /\ tasks' = [k \in DOMAIN tasks \cup {t} |->
                    IF k = t
                    THEN [pc |-> "select", mode |-> NormalizeMode(mode),
                          runs |-> IF t \in DOMAIN tasks
                                   THEN tasks[t].runs + 1 ELSE 1]
                    ELSE tasks[k]]
    /\ last' = StoreCall("set_mode", mode, FALSE, "")
    /\ UNCHANGED <<applied, services, now, limiter, settings, initialized,
                   cache, usage, settings_db, answered>>

\* The next store call of update_ai_mode: the SELECT of set_setting
\* (storage.py:55-58), its assignment and commit (storage.py:59-65), the
\* audit row (storage.py:142-144) after which set_mode returns
\* (router.py:212); a store call that raises ends set_mode
SetModeStore(t, store_ok) ==
    /\ t \in DOMAIN tasks
    /\ tasks[t].pc \in {"select", "commit", "audit"}
    /\ settings_db' = IF tasks[t].pc = "commit" /\ store_ok
                      THEN SetSetting(settings_db, AI_MODE_KEY, tasks[t].mode)
                      ELSE settings_db
    /\ tasks' = [tasks EXCEPT ![t].pc =
                    IF ~store_ok THEN "raised"
                    ELSE CASE @ = "select" -> "commit"
                           [] @ = "commit" -> "audit"
                           [] OTHER -> "returned"]
    /\ last' = StoreCall("set_mode", tasks[t].mode, ~store_ok,
                         IF store_ok /\ tasks[t].pc = "audit"
                         THEN tasks[t].mode ELSE "")
    /\ UNCHANGED <<applied, services, now, limiter, settings, router_mode,
                   initialized, cache, usage, answered>>

NextModes ==
    \/ Initialize
    \/ \E t \in {1, 2}, mode \in {"mini_only", "turbo_only", "fast"} :
          SetModeBegin(t, mode)
    \/ \E t \in {1, 2}, store_ok \in BOOLEAN : SetModeStore(t, store_ok)

SpecModes == InitAdmin /\ [][NextModes]_vars

(***************************************************************************)
(* Restart: the process ends and app startup runs again over the same      *)
(* database                                                                *)
(***************************************************************************)
MaxRestarts == 1

\* The process is stopped and lifespan constructs the services anew
\* (main.py:50-75); initialize follows as its own step
Restart ==
    /\ initialized
    /\ applied.restarts < MaxRestarts
    /\ limiter' = NewLimiter(settings.openai_soft_limit_usd,
                             settings.openai_daily_limit_usd)
    /\ router_mode' = settings.ai_router_mode
    /\ initialized' = FALSE
    /\ tasks' = <<>>
    /\ applied' = [applied EXCEPT !.restarts = @ + 1]
    /\ last' = StoreCall("restart", 0, FALSE, 0)
    /\ UNCHANGED <<services, now, settings, cache, usage, settings_db,
                   answered>>

NextRestart ==
    \/ \E read_ok \in BOOLEAN : InitializeCall(read_ok)
    \/ Tick
    \/ \E mode \in AdminModeInputs, failure \in 0..2 : SetModeCall(mode, failure)
    \/ \E soft_limit \in AdminSoftInputs, hard_limit \in AdminHardInputs,
          failure \in 0..3 : SetLimitsCall(soft_limit, hard_limit, failure)
    \/ Restart

SpecRestart == InitAdmin /\ [][NextRestart]_vars

(***************************************************************************)
(* Asks racing with each other and with a ledger refresh, on one UTC day   *)
(* with fixed limits                                                       *)
(***************************************************************************)
MaxRaceAsks == 2
MaxRefreshes == 1

\* refresh_limits -> DailyLimiter.refresh up to the answer of the store:
\* _ensure_current_day, then usage_total_since(start_of_day) runs its SELECT
\* (costs.py:58-61, storage.py:396-402); the frame holds the timestamp taken
\* and the total read
RefreshRead(t, read_ok) ==
    /\ initialized
    /\ tasks[t].pc \in {"idle", "returned", "raised"}
    /\ tasks[t].refreshes < MaxRefreshes
    /\ limiter' = EnsureCurrentDay(limiter, now)
    /\ tasks' = [tasks EXCEPT ![t] =
          [pc |-> IF read_ok THEN "refresh_assign" ELSE "raised",
           at |-> now,
           total |-> IF read_ok THEN UsageTotalSince(usage, StartOfDay(now))
                     ELSE 0,
           refreshes |-> tasks[t].refreshes + 1, runs |-> 0]]
    /\ UNCHANGED <<applied, services, now, settings, router_mode, initialized,
                   cache, usage, settings_db, answered, last>>

\* The refresh coroutine resumes with the total: the assignment of
\* today_spend, _update_mode and _last_refreshed (costs.py:61-64)
RefreshResume(t) ==
    /\ tasks[t].pc = "refresh_assign"
    /\ limiter' = [UpdateMode([limiter EXCEPT !.today_spend = tasks[t].total])
                      EXCEPT !.last_refreshed = tasks[t].at]
    /\ tasks' = [tasks EXCEPT ![t].pc = "returned"]
    /\ UNCHANGED <<applied, services, now, settings, router_mode, initialized,
                   cache, usage, settings_db, answered, last>>

\* Two ask tasks and task 3, which refreshes the ledger
InitRace ==
    /\ now = ClockStep
    /\ settings \in [openai_api_key : {TRUE},
                     ai_router_mode : {"auto"},
                     openai_soft_limit_usd : {1},
                     openai_daily_limit_usd : {1, 4}]
    /\ limiter = NewLimiter(settings.openai_soft_limit_usd,
                            settings.openai_daily_limit_usd)
    /\ router_mode = settings.ai_router_mode
    /\ initialized = FALSE
    /\ cache = {}
    /\ usage = <<>>
    /\ settings_db = <<>>
    /\ answered = 0
    /\ NoServices
    /\ tasks = [t \in ConcTasks \cup {3} |->
                   IF t \in ConcTasks THEN IdleFrame
                   ELSE [pc |-> "idle", at |-> None, total |-> 0,
                         refreshes |-> 0, runs |-> 0]]
    /\ last = Idle

NextRace ==
    \/ Initialize
    \/ \E t \in ConcTasks, kind \in ConcKinds, text \in Prompts,
          locale \in Locales, use_cache \in BOOLEAN :
          AskBegin(t, kind, text, locale, use_cache, MaxRaceAsks)
    \/ \E t \in ConcTasks, complete \in ConcAnswers : AskRun(t, TRUE, complete)
    \/ \E read_ok \in BOOLEAN : RefreshRead(3, read_ok)
    \/ RefreshResume(3)

SpecRace == InitRace /\ [][NextRace]_vars

(***************************************************************************)
(* The rate limiter, the telegram service and the weekly insights engine   *)
(* of the running application                                              *)
(***************************************************************************)
MaxRetries == 2

\* The application when startup is over: lifespan has set the mode according
\* to the webhook setup, RETRY_ATTEMPTS and INSIGHTS_DEBOUNCE_SEC are read
\* from the environment, INSIGHTS_AI_ENABLED is at its default
InitServices ==
    /\ now = ClockStep
    /\ settings \in [openai_api_key : {TRUE},
                     ai_router_mode : {"auto"},
                     openai_soft_limit_usd : {1},
                     openai_daily_limit_usd : {2},
                     retry_attempts : 0..MaxRetries,
                     insights_debounce_seconds : {300, ClockStep,
                                                  ClockStep + 1}]
    /\ limiter = NewLimiter(settings.openai_soft_limit_usd,
                            settings.openai_daily_limit_usd)
    /\ router_mode = settings.ai_router_mode
    /\ initialized = FALSE
    /\ cache = {}
    /\ usage = <<>>
    /\ settings_db = <<>>
    /\ answered = 0
    /\ monotonic = 0
    /\ buckets = <<>>
    /\ granted = <<>>
    /\ app_mode \in {"offline", "online", "degraded"}
    /\ send = [pc |-> "idle", chat_id |-> None, callback |-> FALSE,
               attempt |-> 0, sent |-> 0, slept |-> 0, delivered |-> FALSE,
               updates |-> 0]
    /\ insights = {}
    /\ recent_runs = <<>>
    /\ computed = <<>>
    /\ applied = [mode |-> "", soft_limit |-> None, hard_limit |-> None,
                  restarts |-> 0]
    /\ tasks = <<>>
    /\ last = Idle

\* dict.get(key, default), and the read of a defaultdict
Lookup(d, key, default) == IF key \in DOMAIN d THEN d[key] ELSE default

\* d[key] = value
SetItem(d, key, value) ==
    [k \in DOMAIN d \cup {key} |-> IF k = key THEN value ELSE d[k]]

(***************************************************************************)
(* RateLimiter (services/ratelimit.py)                                     *)
(***************************************************************************)
MaxMono == 4

\* The keys of two endpoints of one user, with the limit and the window
\* their call sites pass (routes.py:152, 186), scaled down
RateLimits ==
    [key \in {"journal:1", "emotion:1"} |->
        IF key = "journal:1" THEN [limit |-> 2, window_seconds |-> 2]
        ELSE [limit |-> 1, window_seconds |-> 1]]

RECURSIVE Evict_AtWindow(_, _, _)
RECURSIVE Evict(_, _, _)
\* the eviction loop dropping the timestamps that are exactly one window old
Evict_AtWindow(bucket, t, window_seconds) ==
    IF bucket # <<>> /\ t - Head(bucket) >= window_seconds
    THEN Evict_AtWindow(Tail(bucket), t, window_seconds)
    ELSE bucket

\* while bucket and now - bucket[0] > window_seconds: bucket.popleft()
Evict(bucket, t, window_seconds) ==
    IF bucket # <<>> /\ t - Head(bucket) > window_seconds
    THEN Evict(Tail(bucket), t, window_seconds)
    ELSE bucket

\* time.monotonic() moves on
MonoTick ==
    /\ monotonic < MaxMono
    /\ monotonic' = monotonic + 1
    /\ last' = Idle
    /\ UNCHANGED <<applied, now, limiter, settings, router_mode, initialized,
                   cache, usage, settings_db, answered, tasks, buckets,
                   granted, app_mode, send, insights, recent_runs, computed>>

\* RateLimiter.allow
Allow(key, limit, window_seconds) ==
    /\ LET bucket == Evict(Lookup(buckets, key, <<>>), monotonic,
                          window_seconds)
           ok == Len(bucket) < limit
       IN /\ buckets' = SetItem(buckets, key,
                                IF ok THEN Append(bucket, monotonic)
                                ELSE bucket)
          /\ granted' = IF ok
                        THEN SetItem(granted, key,
                                     Append(Lookup(granted, key, <<>>),
                                            monotonic))
                        ELSE granted
          /\ last' = OtherCall("allow", <<key, limit, window_seconds>>, ok,
                               buckets)
    /\ UNCHANGED <<applied, now, limiter, settings, router_mode, initialized,
                   cache, usage, settings_db, answered, tasks, monotonic,
                   app_mode, send, insights, recent_runs, computed>>

NextRate ==
    \/ MonoTick
    \/ \E key \in DOMAIN RateLimits :
          Allow(key, RateLimits[key].limit, RateLimits[key].window_seconds)

SpecRate == InitServices /\ [][NextRate]_vars

(***************************************************************************)
(* TelegramService (services/telegram.py) and the application mode         *)
(***************************************************************************)
MaxUpdates == 2

\* What one bot.send_message call does: it returns, or raises an exception
\* of one of the classes _send_message tells apart; error_code is the
\* attribute of that name, None when the exception has none
SendOutcomes ==
    [exc : {"none", "TimeoutError", "TelegramNetworkError",
            "TelegramRetryAfter", "Exception"},
     error_code : {None}]
        \cup [exc : {"TelegramAPIError"}, error_code : {None, 400, 500}]

\* the except clauses when every error is followed by another attempt
Retried_ClientErrorsToo(outcome) ==
    outcome.exc # "none"

\* The except clauses of _send_message that sleep and go on with the loop
\* (telegram.py:147-181); getattr(exc, "error_code", 500) >= 500
Retried(outcome) ==
    \/ outcome.exc \in {"TimeoutError", "TelegramNetworkError",
                        "TelegramRetryAfter"}
    \/ /\ outcome.exc = "TelegramAPIError"
       /\ (IF outcome.error_code = None THEN 500 ELSE outcome.error_code)
              >= 500

\* process_update up to its first bot.send_message: the reply is built
\* (built_ok: no storage or router call raised), an update without chat id
\* is answered in the API only, and _send_message enters its loop; with no
\* turn to make it returns False at once: _handle_callback reports that
\* (telegram.py:397-404), process_update sets the mode to degraded
\* (telegram.py:469-472)
UpdateBegin(chat_id, callback, built_ok) ==
    /\ send.pc \in {"idle", "done", "raised"}
    /\ send.updates < MaxUpdates
    /\ LET sending == built_ok /\ chat_id # None
           turns == settings.retry_attempts >= 1
       IN /\ send' = [pc |-> IF ~built_ok THEN "raised"
                             ELSE IF sending /\ turns THEN "sending"
                             ELSE "done",
                      chat_id |-> chat_id, callback |-> callback,
                      attempt |-> 1, sent |-> 0, slept |-> 0,
                      delivered |-> FALSE, updates |-> send.updates + 1]
          /\ app_mode' = IF sending /\ ~turns /\ ~callback THEN "degraded"
                         ELSE app_mode
    /\ last' = OtherCall("process_update", <<chat_id, callback>>, 0, app_mode)
    /\ UNCHANGED <<applied, now, limiter, settings, router_mode, initialized,
                   cache, usage, settings_db, answered, tasks, monotonic,
                   buckets, granted, insights, recent_runs, computed>>

\* One turn of the loop of _send_message: bot.send_message ends with
\* outcome; then the sleep and the next turn, or the return and the rest of
\* _handle_callback or process_update
SendAttempt(outcome) ==
    /\ send.pc = "sending"
    /\ LET ok == outcome.exc = "none"
           again == ~ok /\ Retried(outcome)
                        /\ send.attempt < settings.retry_attempts
       IN /\ send' = [send EXCEPT
                         !.sent = @ + 1,
                         !.slept = IF ~ok /\ Retried(outcome) THEN @ + 1 ELSE @,
                         !.attempt = IF again THEN @ + 1 ELSE @,
                         !.pc = IF again THEN "sending" ELSE "done",
                         !.delivered = ok]
          /\ app_mode' = IF ~ok /\ ~again /\ ~send.callback THEN "degraded"
                         ELSE app_mode
    /\ last' = OtherCall("send_attempt", outcome, 0, send)
    /\ UNCHANGED <<applied, now, limiter, settings, router_mode, initialized,
                   cache, usage, settings_db, answered, tasks, monotonic,
                   buckets, granted, insights, recent_runs, computed>>

NextTelegram ==
    \/ \E chat_id \in {None, 7}, callback \in BOOLEAN, built_ok \in BOOLEAN :
          UpdateBegin(chat_id, callback, built_ok)
    \/ \E outcome \in SendOutcomes : SendAttempt(outcome)

\* The event loop resumes the coroutine when bot.send_message, bounded by
\* request_timeout, or asyncio.sleep is over
SpecTelegram ==
    /\ InitServices
    /\ [][NextTelegram]_vars
    /\ WF_vars(\E outcome \in SendOutcomes : SendAttempt(outcome))

(***************************************************************************)
(* WeeklyInsightsEngine (insights/weekly.py)                               *)
(***************************************************************************)
\* WeeklyInsightsEngine._normalize_week_start on day numbers: day 0 is
\* Thursday 1970-01-01, so date.weekday() is (d + 3) % 7
NormalizeWeekStart(d) == d - ((d + 3) % 7)

\* the debounce decision taken from the stored row alone
LastRun_RowOnly(existing, cached, t, debounce_seconds) ==
    existing

\* _recompute_single up to the debounce decision: the run it measures from,
\* None without one (weekly.py:165-177)
LastRun(existing, cached, t, debounce_seconds) ==
    IF existing # None THEN existing
    ELSE IF cached # None /\ t - cached < debounce_seconds
         THEN cached ELSE None

\* WeeklyInsightsEngine._recompute_single; active says whether
\* fetch_activity_range finds emotions or journal entries in the week
RecomputeSingle(user_id, week_start, force, active) ==
    /\ LET normalized == NormalizeWeekStart(week_start)
           key == <<user_id, normalized>>
           rows == {r \in insights : /\ r.user_id = user_id
                                     /\ r.week_start = normalized}
           existing == IF rows = {} THEN None
                       ELSE (CHOOSE r \in rows : TRUE).computed_at
           cached == Lookup(recent_runs, key, None)
           debounce == settings.insights_debounce_seconds
           last_run == LastRun(existing, cached, now, debounce)
           runs1 == IF existing = None /\ cached # None /\ last_run = None
                    THEN [k \in DOMAIN recent_runs \ {key} |-> recent_runs[k]]
                    ELSE recent_runs
           result == IF ~force /\ last_run # None /\ now - last_run < debounce
                     THEN "debounced"
                     ELSE IF ~active /\ existing = None THEN "empty"
                     ELSE "updated"
       IN /\ insights' = IF result = "updated"
                         THEN (insights \ rows)
                                 \cup {[user_id |-> user_id,
                                        week_start |-> normalized,
                                        entries |-> active,
                                        computed_at |-> now]}
                         ELSE insights
          /\ recent_runs' = IF result = "debounced" THEN runs1
                            ELSE SetItem(runs1, key, now)
          /\ computed' = IF result = "debounced" THEN computed
                         ELSE SetItem(computed, key, now)
          /\ last' = OtherCall("recompute", <<user_id, week_start, force>>,
                               result, insights)
    /\ UNCHANGED <<applied, now, limiter, settings, router_mode, initialized,
                   cache, usage, settings_db, answered, tasks, monotonic,
                   buckets, granted, app_mode, send>>

NextWeekly ==
    \/ Tick
    \/ \E user_id \in {1}, week_start \in {4, 5, 11}, force \in BOOLEAN,
          active \in BOOLEAN :
          RecomputeSingle(user_id, week_start, force, active)

SpecWeekly == InitServices /\ [][NextWeekly]_vars

(***************************************************************************)
(* Properties                                                              *)
(***************************************************************************)
IsAsk == last.op = "ask"
Answered == IsAsk /\ last.outcome = "answer"
Rejected == IsAsk /\ last.outcome = "HardLimitExceeded"

\* The step is an ask call
AskStep == last'.op = "ask"

\* The locale the ask of this step works with
LocaleOfStep == IF last'.locale \in {"ru", "en"} THEN last'.locale ELSE "ru"

\* The unexpired cache entries for the fingerprint of this step's request
LiveEntries ==
    {e \in cache : /\ e.cache_key = CacheKey(last'.kind, last'.text, LocaleOfStep)
                   /\ e.expires_at > now}

\* The ask of this step is a cache hit
HitStep == AskStep /\ last'.use_cache /\ LiveEntries # {}

\* The usage rows this step appended
NewRows == SubSeq(usage', Len(usage) + 1, Len(usage'))

AppendsOnly == Len(usage') >= Len(usage) /\ SubSeq(usage', 1, Len(usage)) = usage

AppendsOneZeroCostRow(source) ==
    /\ AppendsOnly
    /\ Len(NewRows) = 1
    /\ NewRows[1].usd_cost = 0
    /\ NewRows[1].source = source

NoPaidRowWritten ==
    AppendsOnly /\ \A i \in 1..Len(NewRows) : NewRows[i].usd_cost = 0

\* C1 as claimed: while the ledger mode is hard, every ask fails with
\* HardLimitExceeded, the provider is not invoked and no usage record with
\* a nonzero cost is written.
C1_EveryAskFails ==
    [][(AskStep /\ ModeRead(limiter, now) = "hard") =>
          /\ last'.outcome = "HardLimitExceeded"
          /\ last'.openai_calls = 0
          /\ NoPaidRowWritten]_vars

\* C1 (amended): while the ledger mode is hard, every ask that is not
\* answered from the cache - use_cache false, or no unexpired entry for the
\* request's fingerprint - fails with HardLimitExceeded and writes no usage
\* record, whatever the kind and the forced router mode; a cache hit is
\* still answered from the cache; in both cases the provider is not invoked
\* and no usage record with a nonzero cost is written.
C1_HardModeRejects ==
    [][(AskStep /\ ModeRead(limiter, now) = "hard") =>
          /\ last'.openai_calls = 0
          /\ NoPaidRowWritten
          /\ IF HitStep
             THEN last'.outcome = "answer" /\ last'.response.source = "cache"
             ELSE last'.outcome = "HardLimitExceeded" /\ usage' = usage]_vars

C1_Witness ==
    /\ Rejected
    /\ limiter.mode = "hard"
    /\ router_mode = "local_only"
    /\ last.use_cache

\* C2: an ask with use_cache and an unexpired entry for the request's
\* fingerprint returns that entry's text with source cache, cached true and
\* cost 0, does not invoke the provider, leaves today_spend unchanged and
\* writes one zero-cost usage record with source cache.
C2_CacheHit ==
    [][HitStep =>
          /\ last'.outcome = "answer"
          /\ \E e \in LiveEntries : last'.response.text = e.response_text
          /\ last'.response.source = "cache"
          /\ last'.response.cached
          /\ last'.response.usd_cost = 0
          /\ last'.openai_calls = 0
          /\ limiter'.today_spend = limiter.today_spend
          /\ TodaySpendRead(limiter', now') = TodaySpendRead(limiter, now)
          /\ AppendsOneZeroCostRow("cache")]_vars

C2_Witness ==
    /\ Answered
    /\ last.response.source = "cache"
    /\ last.response.cached
    /\ \E e \in cache : e.response_text = last.response.text /\ e.usd_cost > 0
    /\ limiter.today_spend > 0

\* C3: when the provider client raises during a paid-route ask, the ask
\* returns the local generator's non-empty text with source local, model
\* local and cost 0, writes exactly one usage record, of zero cost, leaves
\* today_spend unchanged and writes nothing to the cache.
C3_ProviderFailureFallback ==
    [][(AskStep /\ last'.openai_raised) =>
          /\ last'.outcome = "answer"
          /\ last'.response.text =
                 GenerateLocalResponse(last'.kind, last'.text, LocaleOfStep)
          /\ Strip(last'.response.text) # <<>>
          /\ last'.response.source = "local"
          /\ last'.response.model = "local"
          /\ last'.response.usd_cost = 0
          /\ AppendsOnly
          /\ Len(NewRows) = 1
          /\ NewRows[1].usd_cost = 0
          /\ TodaySpendRead(limiter', now') = TodaySpendRead(limiter, now)
          /\ cache' \subseteq cache]_vars

C3_Witness ==
    /\ Answered
    /\ last.openai_raised
    /\ last.openai_calls = 1
    /\ last.response.source = "local"
    /\ limiter.today_spend > 0

\* C4: every ask that returns an answer - cache hit, template, local, paid
\* tier or provider-failure fallback - has written exactly one usage record,
\* an ask that is rejected writes none, and the number of usage records
\* equals the number of answered asks.
C4_OneRecordPerAnswer ==
    /\ [](Len(usage) = answered)
    /\ [][AskStep =>
             /\ AppendsOnly
             /\ Len(NewRows) = IF last'.outcome = "answer" THEN 1 ELSE 0
             /\ (last'.outcome = "answer" =>
                    last'.response.source \in
                        {"cache", "template", "local", "mini", "turbo"})]_vars

C4_Witness ==
    /\ Answered
    /\ answered = 2
    /\ Len(usage) = 2
    /\ usage[1].source \in {"mini", "turbo"}
    /\ usage[2].source = "cache"

\* C5: an ask changes the ledger's today_spend or mode, as a read reports
\* them, only when it returns a paid-tier answer: cache hits, template
\* answers, local answers and provider-failure fallbacks leave both
\* unchanged.
C5_OnlyPaidAnswersMoveSpend ==
    [][(AskStep /\ ~(last'.outcome = "answer"
                     /\ last'.response.source \in {"mini", "turbo"})) =>
          /\ TodaySpendRead(limiter', now') = TodaySpendRead(limiter, now)
          /\ ModeRead(limiter', now') = ModeRead(limiter, now)]_vars

C5_Witness ==
    /\ Answered
    /\ last.response.source = "template"
    /\ limiter.today_spend > 0
    /\ limiter.mode = "soft"

\* The call on the limiter last made, its argument, its result and the
\* limiter as the call found it
LedgerOp == last.op
LedgerArg == last.response.arg
LedgerReturned == last.response.returned
LedgerBefore == last.response.before

\* The call found the limiter last observed on another UTC day
DayChanged ==
    /\ LedgerBefore.last_refreshed # None
    /\ Date(LedgerBefore.last_refreshed) # Date(now)

\* C6: right after refresh, register and set_limits the ledger mode is the
\* one derived from its spend and limits: hard iff today_spend >= hard_limit,
\* soft iff soft_limit <= today_spend < hard_limit, normal otherwise.
C6_ModeDerivedAfterUpdate ==
    LedgerOp \in {"refresh", "register", "set_limits"} =>
        /\ limiter.mode = "hard" <=> limiter.today_spend >= limiter.hard_limit
        /\ limiter.mode = "soft" <=>
               /\ limiter.soft_limit <= limiter.today_spend
               /\ limiter.today_spend < limiter.hard_limit
        /\ limiter.mode = "normal" <=>
               /\ limiter.today_spend < limiter.soft_limit
               /\ limiter.today_spend < limiter.hard_limit

C6_Witness ==
    /\ LedgerOp = "set_limits"
    /\ LedgerBefore.mode = "normal"
    /\ LedgerBefore.today_spend > 0
    /\ ~DayChanged
    /\ limiter.mode = "hard"

\* C7: when the clock is on another UTC day than the ledger's last
\* observation, a read of mode returns normal and a read of today_spend
\* returns 0, whatever the spend and mode were.
C7_ReadAfterRollover ==
    (LedgerOp \in {"mode", "today_spend"} /\ DayChanged) =>
        /\ LedgerOp = "mode" => LedgerReturned = "normal"
        /\ LedgerOp = "today_spend" => LedgerReturned = 0
        /\ limiter.mode = "normal"
        /\ limiter.today_spend = 0

C7_Witness ==
    /\ LedgerOp = "mode"
    /\ DayChanged
    /\ LedgerBefore.mode = "hard"
    /\ LedgerBefore.today_spend > 0
    /\ LedgerReturned = "normal"

\* C8: register(c) leaves today_spend at the previous today_spend plus c
\* when it is called on the UTC day of the last observation, and at c when
\* the day has changed.
C8_RegisterAdds ==
    LedgerOp = "register" =>
        limiter.today_spend =
            IF DayChanged THEN LedgerArg
            ELSE LedgerBefore.today_spend + LedgerArg

C8_Witness ==
    /\ LedgerOp = "register"
    /\ DayChanged
    /\ LedgerBefore.today_spend > 0
    /\ LedgerArg > 0
    /\ limiter.today_spend = LedgerArg

\* C9: after construction and after every set_limits, whatever the
\* arguments, 0 <= soft_limit <= hard_limit: a negative soft limit has
\* become 0 and a hard limit below the soft limit has become the soft limit.
C9_LimitsOrdered ==
    /\ 0 <= limiter.soft_limit
    /\ limiter.soft_limit <= limiter.hard_limit
    /\ LedgerOp \in {"__init__", "set_limits"} =>
           /\ limiter.soft_limit = Max(0, LedgerArg[1])
           /\ limiter.hard_limit = Max(limiter.soft_limit, LedgerArg[2])

C9_Witness ==
    /\ LedgerOp = "set_limits"
    /\ LedgerArg[1] < 0
    /\ LedgerArg[2] < 0
    /\ LedgerBefore.hard_limit > 0
    /\ limiter.soft_limit = 0
    /\ limiter.hard_limit = 0

\* The spend a read reports before the ask of this step
SpendBefore == TodaySpendRead(limiter, now)

\* C10 as claimed: in auto mode with a credential and fixed limits, an
\* uncached ask of a high-cost kind that the provider answers at a positive
\* cost is answered by turbo when the spend before it is below the soft
\* limit, by mini when soft <= spend < hard, and rejected with the
\* budget-exhausted error when spend >= hard; after a rejection the
\* provider is not invoked again that day.
C10_DegradeThenDeny ==
    [][AskStep =>
          /\ SpendBefore < limiter.soft_limit =>
                 /\ last'.outcome = "answer"
                 /\ last'.response.source = "turbo"
          /\ (limiter.soft_limit <= SpendBefore
              /\ SpendBefore < limiter.hard_limit) =>
                 /\ last'.outcome = "answer"
                 /\ last'.response.source = "mini"
          /\ SpendBefore >= limiter.hard_limit =>
                 /\ last'.outcome = "HardLimitExceeded"
                 /\ last'.openai_calls = 0
          /\ Rejected => last'.openai_calls = 0]_vars

\* The route the ask of this step took: the paid tier whose model the
\* provider client was called with, else the source of the answer
RouteTaken ==
    IF last'.openai_calls = 1
    THEN IF last'.openai_model = PrimaryModel THEN "mini" ELSE "turbo"
    ELSE last'.response.source

LimiterModes == {"normal", "soft", "hard"}

\* The baseline of this step's request is the high-cost tier, by its kind
\* or by forced turbo_only
HighCostBaseline ==
    \/ router_mode = "turbo_only"
    \/ router_mode = "auto" /\ last'.kind \in {"deep_insight", "weekly_review"}

\* The baseline of this step's request is a paid tier, by its kind, by
\* mini_only or by turbo_only
PaidBaseline ==
    \/ router_mode \in {"mini_only", "turbo_only"}
    \/ router_mode = "auto" /\ last'.kind \notin {"quick_tip", "breathing_hint"}

\* C11: while the forced mode is local_only, route resolution yields local
\* for the kind of every ask and every ledger mode, with or without a
\* credential; no ask invokes the provider client, and an ask that is
\* answered otherwise than from the cache is answered by the local generator.
C11_LocalOnlyNeverCallsProvider ==
    [][(AskStep /\ router_mode = "local_only") =>
          /\ \A limiter_mode \in LimiterModes :
                 SelectRoute(last'.kind, router_mode, limiter_mode,
                             settings.openai_api_key) = "local"
          /\ last'.openai_calls = 0
          /\ (last'.outcome = "answer" /\ ~HitStep) =>
                 /\ last'.response.source = "local"
                 /\ last'.response.model = "local"
                 /\ last'.response.text =
                        GenerateLocalResponse(last'.kind, last'.text,
                                              LocaleOfStep)]_vars

C11_Witness ==
    /\ Answered
    /\ router_mode = "local_only"
    /\ settings.openai_api_key
    /\ last.kind = "deep_insight"
    /\ last.response.source = "local"
    /\ last.openai_calls = 0
    /\ limiter.mode = "soft"

\* C12 as claimed: when the ledger mode read at the budget gate is soft, ask
\* is not rejected, never takes the turbo route, and a high-cost baseline
\* (from the kind or from turbo_only) is served by the mini tier.
C12_SoftServedByMini ==
    [][(AskStep /\ ModeRead(limiter, now) = "soft") =>
          /\ last'.outcome = "answer"
          /\ RouteTaken # "turbo"
          /\ (HighCostBaseline /\ ~HitStep) => RouteTaken = "mini"]_vars

\* C12 (amended): when the ledger mode read at the budget gate is soft, ask
\* is never rejected and never takes the turbo route; a high-cost baseline
\* (from the kind or from turbo_only) is routed to the mini tier when a
\* provider credential is configured and to the local generator when none
\* is.
C12_SoftNeverTurbo ==
    [][(AskStep /\ ModeRead(limiter, now) = "soft") =>
          /\ last'.outcome = "answer"
          /\ RouteTaken # "turbo"
          /\ last'.openai_model # DeepModel
          /\ (HighCostBaseline /\ ~HitStep) =>
                 RouteTaken = IF settings.openai_api_key THEN "mini"
                              ELSE "local"]_vars

C12_Witness ==
    /\ Answered
    /\ limiter.mode = "soft"
    /\ router_mode = "turbo_only"
    /\ last.kind = "quick_tip"
    /\ last.openai_calls = 1
    /\ last.openai_model = PrimaryModel
    /\ last.response.source = "mini"

\* C13: when no provider credential is configured, every ask whose baseline
\* is a paid tier (by kind, by mini_only or by turbo_only) resolves to the
\* local route, is answered by the local generator unless it is rejected or
\* answered from the cache, and no ask invokes the provider client.
C13_NoCredentialLocal ==
    [][(AskStep /\ ~settings.openai_api_key) =>
          /\ last'.openai_calls = 0
          /\ PaidBaseline =>
                 /\ SelectRoute(last'.kind, router_mode,
                                ModeRead(limiter, now),
                                settings.openai_api_key) = "local"
                 /\ (last'.outcome = "answer" /\ ~HitStep) =>
                        /\ last'.response.source = "local"
                        /\ last'.response.usd_cost = 0]_vars

C13_Witness ==
    /\ Answered
    /\ ~settings.openai_api_key
    /\ router_mode = "turbo_only"
    /\ last.kind = "mood_reply"
    /\ last.response.source = "local"
    /\ last.openai_calls = 0

\* The route the specification gives for a kind in auto mode
ExpectedRoute(kind) ==
    CASE kind \in {"quick_tip", "breathing_hint"} -> "template"
      [] kind = "mood_reply" -> "mini"
      [] kind \in {"deep_insight", "weekly_review"} -> "turbo"
      [] OTHER -> "mini"

\* C14: with forced mode auto, ledger mode normal and a credential, the
\* route of an ask not answered from the cache is the one of its kind:
\* template for quick_tip and breathing_hint, mini for mood_reply, turbo for
\* deep_insight and weekly_review, mini for every other kind.
C14_RouteByKind ==
    [][(AskStep /\ router_mode = "auto" /\ ModeRead(limiter, now) = "normal"
        /\ settings.openai_api_key /\ ~HitStep) =>
          /\ last'.outcome = "answer"
          /\ RouteTaken = ExpectedRoute(last'.kind)
          /\ SelectRoute(last'.kind, router_mode, ModeRead(limiter, now),
                         settings.openai_api_key) = ExpectedRoute(last'.kind)]_vars

C14_Witness ==
    /\ Answered
    /\ router_mode = "auto"
    /\ settings.openai_api_key
    /\ last.kind = "journal"
    /\ last.openai_calls = 1
    /\ last.openai_model = PrimaryModel

\* The direct call on the cache of this step: its arguments, the entry it
\* returned and the row its lookup found
CacheOp == last'.op
CacheArgKind == last'.response.arg[1]
CacheArgPrompt == last'.response.arg[2]
CacheArgLocale == last'.response.arg[3]
CacheReturned == last'.response.returned
CacheFound == last'.response.before

\* C16: for every kind and locale, prompts that differ only in letter case,
\* leading or trailing whitespace or the length of internal whitespace runs
\* have the same fingerprint, and a get with one of them returns the
\* unexpired entry that a set with another one wrote.
C16_VariantsShareEntry ==
    /\ [](\A kind \in Kinds, locale \in CacheLocales :
            \A p1 \in PromptVariants, p2 \in PromptVariants :
                CacheKey(kind, p1, locale) = CacheKey(kind, p2, locale))
    /\ [][(CacheOp = "cache_get" /\ CacheArgPrompt \in PromptVariants) =>
             \A e \in cache :
                 (/\ e.kind = CacheArgKind
                  /\ e.locale = CacheArgLocale
                  /\ e.prompt \in PromptVariants
                  /\ e.expires_at > now) => CacheReturned = e]_vars

C16_Witness ==
    /\ last.op = "cache_get"
    /\ last.response.returned # NoEntry
    /\ last.response.returned.prompt = <<"a", " ", "B">>
    /\ last.response.arg[2] = <<" ", "A", " ", "\t", "b", " ">>
    /\ last.response.returned.response_text = LongText

\* C18: get returns an entry only while the clock is strictly before the
\* entry's expiry; the expiry is the time of the last set plus the TTL and a
\* get that returns the entry leaves the table as it is; a get that finds
\* the entry at or past its expiry reports a miss and deletes the entry.
C18_ExpiryStrict ==
    [][/\ (CacheOp = "cache_get" /\ CacheReturned # NoEntry) =>
              /\ now < CacheReturned.expires_at
              /\ CacheReturned = CacheFound
              /\ cache' = cache
       /\ (CacheOp = "cache_get" /\ CacheFound # NoEntry
           /\ CacheFound.expires_at <= now) =>
              /\ CacheReturned = NoEntry
              /\ cache' = cache \ {CacheFound}
              /\ \A e \in cache' : e.cache_key # CacheFound.cache_key
       /\ (CacheOp = "cache_set" /\ cache' # cache) =>
              \E e \in cache' :
                  /\ e.cache_key = CacheKey(CacheArgKind, CacheArgPrompt,
                                            CacheArgLocale)
                  /\ e.expires_at = now + AiCacheTtlSec]_vars

C18_Witness ==
    /\ last.op = "cache_get"
    /\ last.response.before # NoEntry
    /\ last.response.before.expires_at = now
    /\ last.response.returned = NoEntry
    /\ last.response.before \notin cache

\* The ask of this step returned an answer generated by a paid tier
PaidAnswerStep ==
    /\ AskStep
    /\ last'.outcome = "answer"
    /\ last'.response.source \in {"mini", "turbo"}

\* What a get for the request of this step returns after the step
GetAfterStep ==
    CacheGet(cache', last'.kind, last'.text, LocaleOfStep, now')

\* No cache entry holds a text shorter than 60 trimmed characters
NoShortEntry ==
    \A e \in cache : Len(Strip(e.response_text)) >= MinCacheLen

C20_BlankReplyReplaced ==
    /\ [](Answered => Strip(last.response.text) # <<>>)
    /\ [](\A e \in cache : Strip(e.response_text) # <<>>)
    /\ [][(AskStep /\ last'.openai_calls = 1 /\ ~last'.openai_raised
           /\ Strip(last'.openai_text) = <<>>) =>
             LET local == GenerateLocalResponse(last'.kind, last'.text,
                                                LocaleOfStep)
             IN /\ last'.outcome = "answer"
                /\ last'.response.text = local
                /\ IF Len(Strip(local)) >= MinCacheLen
                   THEN GetAfterStep # NoEntry
                        /\ GetAfterStep.response_text = local
                        /\ GetAfterStep.model = last'.response.model
                   ELSE cache' \subseteq cache]_vars

C20_Witness ==
    /\ Answered
    /\ last.openai_calls = 1
    /\ last.openai_text = BlankText
    /\ last.kind = "deep_insight"
    /\ last.response.source = "turbo"
    /\ last.response.text = GenerateLocalResponse("deep_insight", last.text, "en")
    /\ \E e \in cache : e.response_text = last.response.text

\* C19: an ask answered by the template route, by the local route or by the
\* provider-failure fallback - like a cache hit and a rejected ask - creates
\* and modifies no cache entry; a step that adds or changes an entry is an
\* ask that returned a successful paid-tier answer.
C19_OnlyPaidAnswersWriteCache ==
    [][/\ (AskStep /\ ~PaidAnswerStep) => cache' \subseteq cache
       /\ ~(cache' \subseteq cache) =>
              /\ PaidAnswerStep
              /\ last'.openai_calls = 1
              /\ ~last'.openai_raised]_vars

C19_Witness ==
    /\ Answered
    /\ last.response.source = "local"
    /\ last.openai_calls = 0
    /\ ~last.use_cache
    /\ \E e \in cache :
           /\ e.kind = last.kind
           /\ e.prompt = last.text
           /\ e.expires_at > now
           /\ e.response_text # last.response.text

(***************************************************************************)
(* Failures of the store                                                   *)
(***************************************************************************)
\* The store call of task t fails in this step: the call named by `call`
StoreCallFails(t, call) ==
    tasks[t].failed = "" /\ tasks'[t].failed = call

PaidFrame(f) == f.reply # NoReply

\* C21: when the cache store fails during the lookup at the start of an ask,
\* the failure is treated as a cache miss: the ask goes on to the budget gate
\* and the generation and still returns an answer
C21_LookupFailureIsMiss ==
    [][\A t \in DOMAIN tasks :
          (tasks[t].pc = "cache_get" /\ StoreCallFails(t, "cache_get"))
              => tasks'[t].pc = "gate"]_vars

\* C22: when the cache store fails while the entry of a successful paid
\* answer is written, the write is skipped and the ask still returns the
\* paid answer; the usage record and the ledger charge have been made
C22_WriteFailureSkipped ==
    [][\A t \in DOMAIN tasks :
          (tasks[t].pc \in {"upsert_select", "upsert_commit"}
              /\ StoreCallFails(t, "cache_set"))
              => /\ tasks'[t].pc = "returned"
                 /\ tasks'[t].response = tasks[t].response
                 /\ tasks'[t].row \in 1..Len(usage')
                 /\ usage'[tasks'[t].row].usd_cost = tasks[t].reply.cost]_vars

\* C23: when persisting the usage record fails, the ask raises instead of
\* returning an answer and the usage table is left as it was; on the paid
\* path today_spend is not increased and no cache entry is written, in that
\* step or in any later step of the ask
C23_UsageFailurePropagates ==
    [][\A t \in DOMAIN tasks :
          /\ (tasks[t].pc \in {"record_hit", "record_zero", "record"}
                 /\ StoreCallFails(t, "record_usage"))
                 => /\ tasks'[t].pc = "raised"
                    /\ tasks'[t].response = NoResponse
                    /\ answered' = answered
                    /\ usage' = usage
                    /\ PaidFrame(tasks[t])
                           => /\ limiter'.today_spend = limiter.today_spend
                              /\ cache' = cache
          /\ (tasks[t].pc = "raised" /\ tasks'[t] # tasks[t])
                 => tasks'[t].pc \in {"cache_get", "gate"}
                    /\ tasks'[t].runs = tasks[t].runs + 1]_vars

C23_Witness ==
    \E t \in DOMAIN tasks :
        /\ tasks[t].pc = "raised"
        /\ tasks[t].failed = "record_usage"
        /\ PaidFrame(tasks[t])
        /\ tasks[t].reply.cost > 0

\* C24: when the usage-store read fails during a ledger refresh, the ledger
\* keeps the spend and the mode it had before the refresh, and neither
\* refresh_limits nor initialize of the router raises
C24_RefreshFailureKept ==
    [][/\ RefreshLimitsCall(FALSE)
              => /\ last'.outcome = "ok"
                 /\ limiter'.today_spend = limiter.today_spend
                 /\ limiter'.mode = limiter.mode
       /\ InitializeCall(FALSE) => last'.outcome = "ok"]_vars

\* C25: the router mode is always one of auto, mini_only, local_only and
\* turbo_only: set_mode stores the given mode when it is one of the four and
\* auto otherwise, and returns and persists what it stored
C25_ModeAlwaysAccepted ==
    /\ [](router_mode \in {"auto", "mini_only", "local_only", "turbo_only"})
    /\ [][last'.op = "set_mode" =>
            LET given == last'.response.arg
                accepted == IF given \in {"auto", "mini_only", "local_only",
                                          "turbo_only"}
                            THEN given ELSE "auto"
            IN /\ router_mode' = accepted
               /\ last'.outcome = "ok"
                      => /\ last'.response.returned = accepted
                         /\ settings_db'[AI_MODE_KEY] = accepted]_vars

C25_Witness ==
    /\ last.op = "set_mode"
    /\ last.outcome = "ok"
    /\ last.response.arg = "fast"
    /\ last.response.returned = "auto"
    /\ router_mode = "auto"

\* C26: set_limits changes the limits of the ledger only after persisting
\* them: if persisting fails the ledger's soft limit, hard limit and mode
\* are unchanged; if it succeeds the ledger holds the persisted limits and
\* its mode is recomputed from them at once
C26_LedgerHoldsPersistedLimits ==
    [][last'.op = "set_limits" =>
          IF last'.outcome = "StoreError"
          THEN /\ limiter'.soft_limit = limiter.soft_limit
               /\ limiter'.hard_limit = limiter.hard_limit
               /\ limiter'.mode = limiter.mode
          ELSE /\ limiter'.soft_limit = settings_db'[AI_SOFT_LIMIT_KEY]
               /\ limiter'.hard_limit = settings_db'[AI_HARD_LIMIT_KEY]
               /\ limiter'.mode =
                      IF limiter'.today_spend >= limiter'.hard_limit THEN "hard"
                      ELSE IF limiter'.today_spend >= limiter'.soft_limit
                           THEN "soft" ELSE "normal"]_vars

(***************************************************************************)
(* Concurrent asks                                                         *)
(***************************************************************************)
RECURSIVE PendingCost(_, _)
\* The costs whose usage row is persisted and whose register has not run yet
PendingCost(fs, ids) ==
    IF ids = {} THEN 0
    ELSE LET t == CHOOSE x \in ids : TRUE
         IN (IF fs[t].pc = "register" THEN fs[t].reply.cost ELSE 0)
                + PendingCost(fs, ids \ {t})

\* Task t is past the SELECT of its cache write and found no row
SelectedNothing(t) ==
    tasks[t].upsert_at # None /\ ~tasks[t].found

\* C27: concurrent paid asks never lose a ledger update: for any
\* interleaving of asks on one UTC day with no refresh in between, every
\* register adds exactly its cost to today_spend, nothing else changes
\* today_spend, and today_spend is the sum of the costs of the paid answers
\* whose charge has been made
C27_NoLostLedgerUpdate ==
    /\ [](initialized =>
            limiter.today_spend + PendingCost(tasks, DOMAIN tasks)
                = SumCost(usage))
    /\ [][initialized =>
            \/ \E t \in DOMAIN tasks :
                  /\ tasks[t].pc = "register"
                  /\ tasks'[t].pc # "register"
                  /\ limiter'.today_spend
                         = limiter.today_spend + tasks[t].reply.cost
            \/ limiter'.today_spend = limiter.today_spend]_vars

C27_Witness ==
    /\ \A t \in DOMAIN tasks :
          /\ tasks[t].pc \in {"upsert_commit", "returned", "raised"}
          /\ PaidFrame(tasks[t])
          /\ SelectedNothing(t)
          /\ tasks[t].runs = 1
    /\ \E t, u \in DOMAIN tasks : tasks[t].reply.cost # tasks[u].reply.cost
    /\ Len(usage) = 2
    /\ limiter.today_spend = 3

\* C28: for any interleaving of concurrent cache writes for one fingerprint,
\* every write completes without error, there is at most one entry for the
\* fingerprint at all times, and when an ask has written the entry the entry
\* holds what that ask wrote until the next write
C28_ConcurrentWritesComplete ==
    /\ [](\A t \in DOMAIN tasks : tasks[t].failed # "cache_set")
    /\ [](\A e1, e2 \in cache : e1.cache_key = e2.cache_key => e1 = e2)
    /\ [][\A t \in DOMAIN tasks :
            (tasks[t].pc = "upsert_commit" /\ tasks'[t].pc = "returned")
                => \E e \in cache' :
                      /\ e.cache_key = CacheKey(tasks[t].kind, tasks[t].text,
                                                tasks[t].locale)
                      /\ e.response_text = tasks[t].response.text
                      /\ e.usd_cost = tasks[t].reply.cost
                      /\ e.tokens_in = tasks[t].reply.tokens_in]_vars

\* The position of a step of ask in the order of router.py:64-174
StepRank(pc) ==
    CASE pc = "idle" -> 0
      [] pc = "cache_get" -> 1
      [] pc = "gate" -> 2
      [] pc = "complete" -> 3
      [] pc \in {"record_hit", "record_zero", "record"} -> 4
      [] pc = "register" -> 5
      [] pc = "upsert_select" -> 6
      [] pc = "upsert_commit" -> 7
      [] pc \in {"returned", "raised"} -> 8

\* The steps from which a step of the paid path can be reached
PaidPredecessors(pc) ==
    CASE pc = "complete" -> {"gate"}
      [] pc = "record" -> {"complete"}
      [] pc = "register" -> {"record"}
      [] pc = "upsert_select" -> {"register"}
      [] pc = "upsert_commit" -> {"upsert_select"}
      [] OTHER -> {"idle", "cache_get", "record_hit", "gate", "complete",
                   "record_zero", "record", "register", "upsert_select",
                   "upsert_commit", "returned", "raised"}

\* C29: within one ask the steps occur strictly in the order cache probe,
\* budget gate and route resolution, provider call, usage record with ledger
\* charge, cache write, return; and every cache entry written by ask is
\* preceded by the persisted usage record of the paid answer that produced
\* it
C29_StepsInOrder ==
    [][\A t \in DOMAIN tasks :
          /\ (tasks'[t] # tasks[t] /\ tasks'[t].runs = tasks[t].runs)
                 => /\ StepRank(tasks'[t].pc) > StepRank(tasks[t].pc)
                    /\ tasks[t].pc \in PaidPredecessors(tasks'[t].pc)
          /\ (tasks[t].pc = "upsert_commit" /\ tasks'[t].pc = "returned")
                 => /\ tasks[t].row \in 1..Len(usage)
                    /\ LET row == usage[tasks[t].row]
                       IN \E e \in cache' :
                             /\ e.cache_key = CacheKey(tasks[t].kind,
                                                       tasks[t].text,
                                                       tasks[t].locale)
                             /\ e.model = row.model
                             /\ e.kind = row.kind
                             /\ e.source = row.source
                             /\ e.source \in {"mini", "turbo"}
                             /\ e.usd_cost = row.usd_cost
                             /\ e.tokens_in = row.tokens_in
                             /\ e.tokens_out = row.tokens_out
          /\ (tasks'[t].pc = "returned" /\ tasks[t].pc # "returned"
                 /\ PaidFrame(tasks[t]))
                 => /\ tasks[t].pc \in {"register", "upsert_commit"}
                    /\ tasks[t].row \in 1..Len(usage)]_vars

C29_Witness ==
    \E t \in DOMAIN tasks :
        /\ tasks[t].pc = "returned"
        /\ tasks[t].use_cache
        /\ PaidFrame(tasks[t])
        /\ tasks[t].upsert_at # None
        /\ \E e \in cache : e.response_text = tasks[t].response.text
                               /\ e.usd_cost = usage[tasks[t].row].usd_cost

\* C30: usage records are append-only: no operation of the router, the
\* ledger, the cache or the usage tracker modifies or deletes an existing
\* usage record
C30_UsageAppendOnly ==
    [][/\ Len(usage') >= Len(usage)
       /\ \A i \in 1..Len(usage) : usage'[i] = usage[i]]_vars

C30_Witness ==
    /\ Len(usage) = 2
    /\ usage[1].usd_cost > 0
    /\ usage[2].source = "cache"
    /\ last.op = "ask"

(***************************************************************************)
(* Rate limiting                                                           *)
(***************************************************************************)
\* Number of calls of one key that returned True at a time in [t - w, t]
GrantsInWindow(g, t, w) ==
    Cardinality({i \in 1..Len(g) : t - w <= g[i] /\ g[i] <= t})

\* The key, limit and window of the allow call in `last`
AllowKey(call) == call.response.arg[1]
AllowLimit(call) == call.response.arg[2]
AllowWindow(call) == call.response.arg[3]

\* C31: allow returns True for at most `limit` calls of a key within any
\* time window of length window_seconds (each key called with one limit and
\* one window); a call that returns False consumes no quota: it adds nothing
\* to the key's record and the call is allowed exactly when fewer than `limit`
\* calls of the key were allowed within the last window; keys are
\* independent: a call leaves the record of every other key as it was
C31_AtMostLimitPerWindow ==
    /\ [](\A key \in DOMAIN granted :
            \A j \in 1..Len(granted[key]) :
               GrantsInWindow(granted[key], granted[key][j],
                              RateLimits[key].window_seconds)
                  <= RateLimits[key].limit)
    /\ [][last'.op = "allow" =>
            LET key == AllowKey(last')
                ok == last'.response.returned
            IN /\ ok = (GrantsInWindow(Lookup(granted, key, <<>>), monotonic,
                                       AllowWindow(last'))
                           < AllowLimit(last'))
               /\ ~ok => /\ granted' = granted
                         /\ Len(Lookup(buckets', key, <<>>))
                               <= Len(Lookup(buckets, key, <<>>))
               /\ \A k \in DOMAIN RateLimits \ {key} :
                     /\ Lookup(buckets', k, <<>>) = Lookup(buckets, k, <<>>)
                     /\ Lookup(granted', k, <<>>) = Lookup(granted, k, <<>>)]_vars

\* A call is refused for a key that has used its quota again after an
\* earlier window has run out, while the other key has quota in use too
C31_Witness ==
    /\ last.op = "allow"
    /\ last.response.returned = FALSE
    /\ Len(Lookup(granted, AllowKey(last), <<>>)) > AllowLimit(last)
    /\ \E k \in DOMAIN RateLimits \ {AllowKey(last)} :
          Lookup(buckets, k, <<>>) # <<>>

(***************************************************************************)
(* Telegram delivery                                                       *)
(***************************************************************************)
\* The step is one turn of the loop of _send_message
AttemptStep == last'.op = "send_attempt" /\ send'.sent = send.sent + 1

\* The errors the claim of C32 has retried: a timeout, a network error,
\* throttling, an API error with a code >= 500
RetriedError(outcome) ==
    \/ outcome.exc \in {"TimeoutError", "TelegramNetworkError",
                        "TelegramRetryAfter"}
    \/ /\ outcome.exc = "TelegramAPIError"
       /\ outcome.error_code # None
       /\ outcome.error_code >= 500

\* The errors that end the loop: an API error with a code < 500, an
\* unexpected exception
FinalError(outcome) ==
    \/ outcome.exc = "Exception"
    \/ /\ outcome.exc = "TelegramAPIError"
       /\ outcome.error_code # None
       /\ outcome.error_code < 500

\* C32: _send_message always terminates after at most `retries` attempts: it
\* returns True as soon as one attempt succeeds; after a timeout, a network
\* error, throttling or an API error with code >= 500 it makes the next
\* attempt while attempts are left; it stops at once on an API error with
\* code < 500 or an unexpected exception; it returns False when no attempt
\* succeeded
C32_SendTerminates ==
    /\ [](send.sent <= settings.retry_attempts)
    /\ [][AttemptStep =>
            LET outcome == last'.response.arg
                over == send'.pc = "done"
            IN /\ send.sent < settings.retry_attempts
               /\ outcome.exc = "none" => (over /\ send'.delivered)
               /\ outcome.exc # "none" => ~send'.delivered
               /\ RetriedError(outcome)
                     => (over <=> send'.sent = settings.retry_attempts)
               /\ FinalError(outcome) => over]_vars
    /\ (send.pc = "sending" ~> send.pc = "done")

\* The second attempt succeeded after a retried error, as in
\* test_send_message_retries_on_server_error
C32_Witness ==
    /\ send.pc = "done"
    /\ send.delivered
    /\ settings.retry_attempts = 2
    /\ send.sent = 2
    /\ send.slept = 1
    /\ last.op = "send_attempt"

\* The step belongs to a process_update call
UpdateStep == last'.op \in {"process_update", "send_attempt"} /\ send' # send

\* process_update is over and the reply did not reach the chat it was for
DeliveryFailed(f) == f.pc = "done" /\ f.chat_id # None /\ ~f.delivered

\* C33 as claimed: process_update switches the application mode to degraded
\* exactly when the delivery of the reply to a chat fails; when the delivery
\* succeeds or the update has no chat id, the mode is unchanged.
C33_DegradedIffDeliveryFails ==
    [][UpdateStep => IF DeliveryFailed(send')
                     THEN app_mode' = "degraded"
                     ELSE app_mode' = app_mode]_vars

\* C33 for updates that carry no callback data
C33_PlainUpdates ==
    [][(UpdateStep /\ ~send'.callback) =>
            IF DeliveryFailed(send')
            THEN app_mode' = "degraded"
            ELSE app_mode' = app_mode]_vars

(***************************************************************************)
(* Weekly insights                                                         *)
(***************************************************************************)
\* The arguments of the recompute call in `last`
RecomputeKey(call) ==
    <<call.response.arg[1], NormalizeWeekStart(call.response.arg[2])>>
RecomputeForced(call) == call.response.arg[3]

\* The week of the key was computed less than debounce_seconds before t
ComputedRecently(key, t) ==
    /\ Lookup(computed, key, None) # None
    /\ t - Lookup(computed, key, None) < settings.insights_debounce_seconds

\* C34: a non-forced weekly recompute of a (user, week) less than
\* debounce_seconds after that week's previous computation returns
\* "debounced" and writes nothing; a forced recompute is never debounced
C34_RecomputeDebounced ==
    [][last'.op = "recompute" =>
          /\ (~RecomputeForced(last') /\ ComputedRecently(RecomputeKey(last'), now))
                => /\ last'.response.returned = "debounced"
                   /\ insights' = insights
                   /\ recent_runs' = recent_runs
                   /\ usage' = usage
                   /\ cache' = cache
          /\ RecomputeForced(last')
                => last'.response.returned # "debounced"]_vars

\* A non-forced recompute is debounced after a computation that found no
\* activity and stored no row, as in test_weekly_insight_debounce
C34_Witness ==
    /\ last.op = "recompute"
    /\ last.response.returned = "debounced"
    /\ insights = {}
    /\ Lookup(computed, RecomputeKey(last), None) = now

(***************************************************************************)
(* The ledger's mode                                                       *)
(***************************************************************************)
\* C35 as claimed: in every reachable ledger state, right after construction
\* and after a day rollover included, the mode a read returns is the one
\* derived from the spend and the limits: hard iff spend >= hard limit, soft
\* iff soft limit <= spend < hard limit, normal otherwise.
C35_ModeIsDerived ==
    ModeRead(limiter, now) = UpdateMode(EnsureCurrentDay(limiter, now)).mode

(***************************************************************************)
(* Refreshes and asks in flight together                                   *)
(***************************************************************************)
\* No ask, refresh or set_mode is suspended at an await
AllCompleted ==
    \A t \in DOMAIN tasks : tasks[t].pc \in {"idle", "returned", "raised"}

\* The sum of the costs of today's usage records
ChargedToday == UsageTotalSince(usage, StartOfDay(now))

\* C36 as claimed: for any interleaving of ledger refreshes with paid asks on
\* one UTC day, once all of them have completed today_spend equals the sum of
\* the costs of today's usage records: a charge registered between a
\* refresh's store read and its assignment is not lost.
C36_RefreshLosesNoCharge ==
    (initialized /\ AllCompleted) => limiter.today_spend = ChargedToday

\* The largest cost of a single paid request
SingleRequestCost ==
    LET costs == {r.cost : r \in {a \in ConcAnswers : ~a.raises}}
    IN CHOOSE c \in costs : \A d \in costs : d <= c

\* C37 as claimed: for any interleaving of concurrent asks within one UTC day
\* with fixed limits, the total cost charged never exceeds the hard limit by
\* more than the cost of a single paid request.
C37_OvershootBounded ==
    initialized => ChargedToday <= limiter.hard_limit + SingleRequestCost

(***************************************************************************)
(* The mode in memory and in the store                                     *)
(***************************************************************************)
\* C38 as claimed: whenever no set_mode call is in progress, the in-memory
\* mode of the initialized router equals the persisted mode setting, also
\* after concurrent set_mode calls have completed and after a set_mode whose
\* persistence failed.
C38_MemoryModeIsPersisted ==
    (initialized /\ AllCompleted)
        => /\ AI_MODE_KEY \in DOMAIN settings_db
           /\ router_mode = settings_db[AI_MODE_KEY]

\* C38, calls that raised left aside: every set_mode call made has returned
C38_AfterReturnedCalls ==
    (initialized /\ \A t \in DOMAIN tasks : tasks[t].pc = "returned")
        => /\ AI_MODE_KEY \in DOMAIN settings_db
           /\ router_mode = settings_db[AI_MODE_KEY]

(***************************************************************************)
(* Restart                                                                 *)
(***************************************************************************)
\* The router has been constructed and initialized again after at least one
\* restart
Restarted == initialized /\ applied.restarts > 0

\* The restarted router has the mode last set by a set_mode call that returned
ModeSurvives ==
    (Restarted /\ applied.mode # "") => router_mode = applied.mode

\* The restarted ledger has the limits last applied by set_limits
LimitsSurvive ==
    (Restarted /\ applied.soft_limit # None)
        => /\ limiter.soft_limit = applied.soft_limit
           /\ limiter.hard_limit = applied.hard_limit

\* C39 as claimed: the mode and the limits set at runtime survive a restart:
\* a freshly constructed and initialized router over the same store has the
\* mode last set by set_mode and ledger limits equal to those last applied
\* by set_limits.
C39_SettingsSurviveRestart == ModeSurvives /\ LimitsSurvive

====
